---- MODULE Spec2Model ----
(***************************************************************************)
(* Authentication and session-security core of the bill manager server    *)
(* (apps/server/app.py): refresh-token rotation, the OAuth state codec     *)
(* with its used-nonce set, the 2FA challenge state machine with recovery  *)
(* codes, and the login / OAuth-callback token issuance paths.             *)
(*                                                                         *)
(* Requests run in parallel against one database (PostgreSQL, READ         *)
(* COMMITTED) and one process-wide nonce dictionary.  A handler is split   *)
(* into steps exactly where another request can observe or change the      *)
(* shared state between two of its statements: between a SELECT and the    *)
(* later UPDATE/COMMIT of the same ORM object, and between the membership  *)
(* test and the store on the nonce dictionary.                             *)
(***************************************************************************)
EXTENDS Integers, Sequences, FiniteSets, TLC

VARIABLES
    now,              \* wall clock, seconds
    refresh_tokens,   \* table refresh_tokens: set of rows
    rreq,             \* in-flight POST /auth/refresh requests
    state_tokens,     \* OAuth state tokens handed out by oauth_authorize
    used_nonces,      \* _used_oauth_nonces: set of <<state_nonce, expiry>>
    nonce_last_cleanup,  \* _nonce_last_cleanup
    vreq,             \* in-flight _verify_oauth_state calls
    twofa_config,     \* table twofa_config, one row per user
    cfg_lock,         \* SELECT ... FOR UPDATE holder of each twofa_config row
    challenges,       \* table twofa_challenges
    treq,             \* in-flight POST /auth/2fa/verify requests
    code_book,        \* history: recovery codes generated / consumed per user
    wrong_seen,       \* history: wrong responses answered, per challenge
    users,            \* table users, one row per account id
    oauth_accounts,   \* table oauth_accounts: set of rows
    token_log,        \* history: every token pair issued, and by which endpoint
    response,         \* history: the latest login / OAuth-callback answer
    databases,        \* table databases with user_database_access
    auto_register,    \* OAUTH_AUTO_REGISTER of the running deployment
    lreq,             \* in-flight OAuth callbacks between query and commit
    enable_passkeys,  \* ENABLE_PASSKEYS of the running deployment
    webauthn_credentials,  \* table webauthn_credentials: set of rows
    preq              \* in-flight passkey verifications of /auth/2fa/verify

tokenVars == <<refresh_tokens, token_log>>
passkeyVars == <<enable_passkeys, webauthn_credentials, preq>>
refreshVars == <<tokenVars, rreq>>
nonceVars == <<state_tokens, used_nonces, nonce_last_cleanup, vreq>>
twofaVars == <<twofa_config, cfg_lock, challenges, treq, code_book, wrong_seen>>
loginVars == <<users, oauth_accounts, response, databases, auto_register, lreq,
                   passkeyVars>>
notRefresh == <<nonceVars, twofaVars, loginVars>>
notNonce == <<refreshVars, twofaVars, loginVars>>
notTwoFA == <<rreq, nonceVars, loginVars>>
vars == <<now, refreshVars, nonceVars, twofaVars, loginVars>>

----------------------------------------------------------------------------
(* Bounds of the model *)

NumUsers == 1
MaxTokens == 3
NumRefreshReq == 2
RefreshTick == 604801
MaxRefreshTime == 604801
MaxStates == 2
NumVerifyReq == 2
NonceTick == 150
MaxNonceTime == 750
NumTwoFAUsers == 1
RecoveryCount == 2
MaxChallenges == 2
NumTwoFAReq == 2
NumOtpCodes == 2
NumAccounts == 3
MaxIssued == 2
NumIdNonces == 2
NumLinkReq == 3
NumPasskeyReq == 2
MaxGenerations == 2
MaxSignCount == 2

(* Program constants *)

JWT_REFRESH_TOKEN_EXPIRES == 604800
STATE_TOKEN_EXPIRES == 300
USED_NONCE_TTL == 600
NONCE_CLEANUP_INTERVAL == 300
MAX_ATTEMPTS == 5
CHALLENGE_EXPIRES == 600
REGISTRATION_EXPIRES == 300
CHANGE_TOKEN_EXPIRES == 900
JWT_ACCESS_TOKEN_EXPIRES == 900
PASSWORD_RESET_EXPIRES == 3600

UserIds == 1..NumUsers
Tokens == 1..MaxTokens
RefreshReqs == 1..NumRefreshReq
StateNonces == 1..MaxStates
VerifyReqs == 1..NumVerifyReq
TwoFAUsers == 1..NumTwoFAUsers
ChallengeIds == 1..MaxChallenges
TwoFAReqs == 1..NumTwoFAReq
OtpCodes == 1..NumOtpCodes
Accounts == 1..NumAccounts
PasskeyReqs == 1..NumPasskeyReq
SignCounts == 0..MaxSignCount

----------------------------------------------------------------------------
(* TokenService *)

\* hashlib.sha256(token.encode()).hexdigest(): injective on the token values
Sha256(token) == <<"sha256", token>>

\* secrets.token_urlsafe(32): a value never handed out before (the values
\* are opaque, so the next unused one stands for any fresh value)
FreshTokens ==
    LET unused == {t \in Tokens : \A r \in refresh_tokens : r.token_hash # Sha256(t)}
    IN {t \in unused : \A o \in unused : t <= o}

ActiveRows_AnyRow(rows, token) == {r \in rows : r.token_hash = Sha256(token)}

\* RefreshToken.query.filter_by(token_hash=token_hash, revoked=False)
ActiveRows(rows, token) ==
    {r \in rows : r.token_hash = Sha256(token) /\ r.revoked = FALSE}

\* RefreshToken.query.filter_by(token_hash=token_hash)
RowsByHash(rows, token) == {r \in rows : r.token_hash = Sha256(token)}

RefreshExpired_Never(row, t) == FALSE

\* expires_at < datetime.now(utc)
RefreshExpired(row, t) == row.expires_at < t

RevokeById_Forgotten(rows, id) == rows

\* UPDATE refresh_tokens SET revoked = true WHERE id = :id
RevokeById(rows, id) ==
    {IF r.id = id THEN [r EXCEPT !.revoked = TRUE] ELSE r : r \in rows}

\* UPDATE refresh_tokens SET revoked = true WHERE user_id = :u AND revoked = false
RevokeAllOf(rows, u) ==
    {IF r.user_id = u /\ r.revoked = FALSE THEN [r EXCEPT !.revoked = TRUE] ELSE r
       : r \in rows}

\* create_refresh_token: one new row, 7-day expiry, only the hash stored.
\* parent records the token whose rotation produced this one (0: a login).
NewRefreshRow(rows, token, u, parent, t) ==
    [id |-> Cardinality(rows) + 1, user_id |-> u, token_hash |-> Sha256(token),
     expires_at |-> t + JWT_REFRESH_TOKEN_EXPIRES, revoked |-> FALSE,
     parent |-> parent]

create_refresh_token(rows, token, u, parent, t) ==
    rows \cup {NewRefreshRow(rows, token, u, parent, t)}

\* The log entry of one issued pair: the endpoint that issued it and whether
\* the user's 2FA was enabled at that moment
Issued(log, token, u, via, twofa) ==
    log \cup {[token |-> token, user_id |-> u, via |-> via, twofa |-> twofa]}

\* What a client can present: a token some response carried, or a forged value
PresentableTokens ==
    {t \in Tokens : \E r \in refresh_tokens : r.token_hash = Sha256(t)} \cup {0}

\* Users are interchangeable: a user logs in for the first time only after
\* the users before it (one representative per renaming of the users)
NextUsers ==
    {u \in UserIds : \A v \in UserIds :
        v < u => \E r \in refresh_tokens : r.user_id = v}

IdleRefresh ==
    [pc |-> "idle", token |-> 0, stored |-> 0, user |-> 0, status |-> 0,
     issued |-> 0, replay |-> FALSE]

----------------------------------------------------------------------------
(* OAuthStateCodec *)

\* _generate_oauth_state: a signed JWT of type 'oauth_state' carrying a fresh
\* state_nonce, iat = now and exp = now + 5 minutes
NewStateToken(nonce, t) ==
    [type |-> "oauth_state", state_nonce |-> nonce, iat |-> t,
     exp |-> t + STATE_TOKEN_EXPIRES]

\* secrets.token_hex(16): a nonce never generated before
FreshNonces ==
    LET unused == {n \in StateNonces : \A s \in state_tokens : s.state_nonce # n}
    IN {n \in unused : \A o \in unused : n <= o}

\* jwt.decode(state_token, JWT_SECRET_KEY): ExpiredSignatureError once exp <= now
StateTokenExpired(tok, t) == tok.exp <= t

\* state_nonce in _used_oauth_nonces
NonceUsed(used, nonce) == \E e \in used : e[1] = nonce

MarkNonceUsed_Forgotten(used, nonce, t) == used

\* _used_oauth_nonces[state_nonce] = time.time() + 600
MarkNonceUsed(used, nonce, t) ==
    {e \in used : e[1] # nonce} \cup {<<nonce, t + USED_NONCE_TTL>>}

CleanupUsedNonces_Eager(used, last, t) ==
    IF t - last < NONCE_CLEANUP_INTERVAL
    THEN <<used, last>>
    ELSE <<{}, t>>

\* _cleanup_used_nonces: at most once per interval, drop the entries whose
\* expiry lies in the past.  Gives <<used set, last cleanup>> after the call.
CleanupUsedNonces(used, last, t) ==
    IF t - last < NONCE_CLEANUP_INTERVAL
    THEN <<used, last>>
    ELSE <<{e \in used : ~(e[2] < t)}, t>>

IdleVerify ==
    [pc |-> "idle", token |-> 0, result |-> "none", why |-> "none"]

\* A JWT: the key its HS256 signature was made with ("server": JWT_SECRET_KEY)
\* and the claims the verifiers read.  state_nonce 0: no such claim.
NoJwt == [key |-> "none", type |-> "none", exp |-> 0, user_id |-> 0,
          state_nonce |-> 0]

\* create_access_token
create_access_token(u, t) ==
    [key |-> "server", type |-> "access", exp |-> t + JWT_ACCESS_TOKEN_EXPIRES,
     user_id |-> u, state_nonce |-> 0]

\* _generate_oauth_state: the JWT the state token is
StateJwt(tok) ==
    [key |-> "server", type |-> tok.type, exp |-> tok.exp, user_id |-> 0,
     state_nonce |-> tok.state_nonce]

\* jwt.decode(token, JWT_SECRET_KEY, algorithms=['HS256']): InvalidTokenError
\* for another key, ExpiredSignatureError once exp <= now, else the payload
JwtDecodeError(jwt, t) ==
    IF jwt.key # "server" THEN "InvalidTokenError"
    ELSE IF jwt.exp <= t THEN "ExpiredSignatureError"
    ELSE "none"

TypeIsAccess_Any(jwt) == TRUE

\* verify_access_token: payload.get('type') == 'access'
TypeIsAccess(jwt) == jwt.type = "access"

\* verify_access_token: TRUE when the payload is returned, FALSE for None
verify_access_token(jwt, t) ==
    IF JwtDecodeError(jwt, t) # "none" THEN FALSE
    ELSE TypeIsAccess(jwt)

\* _verify_oauth_state after the cleanup: <<payload returned, used set>>
verify_oauth_state(jwt, used, t) ==
    IF \/ JwtDecodeError(jwt, t) # "none"
       \/ jwt.type # "oauth_state"
       \/ jwt.state_nonce = 0
       \/ NonceUsed(used, jwt.state_nonce)
    THEN <<FALSE, used>>
    ELSE <<TRUE, MarkNonceUsed(used, jwt.state_nonce, t)>>

----------------------------------------------------------------------------
(* TwoFactorChallenge and RecoveryCodeVault *)

\* werkzeug generate_password_hash / check_password_hash: a hash verifies
\* exactly the value it was made from
generate_password_hash(x) == <<"pbkdf2", x>>
check_password_hash(h, x) == h = generate_password_hash(x)

\* A recovery code as typed: <<value, letter case>>.  str.upper()
Upper(code) == <<code[1], "upper">>

\* secrets.token_hex(4).upper() for count codes: fresh values, upper-cased.
\* first is the number of values generated so far.
NewRecoveryCodes(first) ==
    [i \in 1..RecoveryCount |-> <<first + i, "upper">>]

\* _generate_recovery_codes: hashes = [generate_password_hash(c) for c in codes]
HashAll(codes) == [i \in 1..Len(codes) |-> generate_password_hash(codes[i])]

\* for idx, h in enumerate(code_hashes): if check_hash(h, code.upper()): break
\* The first matching index, 0 when no hash matches
MatchedIdx(code_hashes, code) ==
    LET hits == {i \in 1..Len(code_hashes) :
                    check_password_hash(code_hashes[i], Upper(code))}
    IN IF hits = {} THEN 0 ELSE CHOOSE i \in hits : \A j \in hits : i <= j

Pop_FlagOnly(code_hashes, idx) == code_hashes

\* code_hashes.pop(matched_idx)
Pop(code_hashes, idx) ==
    [i \in 1..(Len(code_hashes) - 1) |->
        IF i < idx THEN code_hashes[i] ELSE code_hashes[i + 1]]

\* TwoFAConfig.is_enabled: any method enabled
is_enabled(config) == config.email_otp_enabled \/ config.passkey_enabled

\* A user without a twofa_config row (user.twofa_config is None): every
\* test the handlers make on it gives the same answer as for this row
NoTwoFAConfig ==
    [email_otp_enabled |-> FALSE, passkey_enabled |-> FALSE,
     recovery_codes_hash |-> <<>>, has_recovery_codes |-> FALSE]

\* 'not config.recovery_codes_hash': the column is NULL.  Once codes were
\* generated it holds a JSON list, which is a non-empty string even when
\* every code has been consumed ('[]').
NoRecoveryCodes(config) == ~config.has_recovery_codes

\* TwoFAChallenge.is_expired
is_expired(challenge, t) == t > challenge.expires_at

NoChallenge == [user_id |-> 0]

\* TwoFAChallenge(user_id, token_hash, challenge_type='pending',
\*                expires_at=now + 10 minutes); attempts 0, used False
NewChallenge(u, session_token, t) ==
    [user_id |-> u, token_hash |-> Sha256(session_token),
     challenge_type |-> "pending", otp_code_hash |-> "None", attempts |-> 0,
     used |-> FALSE, expires_at |-> t + CHALLENGE_EXPIRES]

SessionError_UsedPasses(challenge, t) ==
    IF challenge = NoChallenge THEN <<401, "invalid">>
    ELSE IF is_expired(challenge, t) THEN <<401, "expired">>
    ELSE IF challenge.attempts >= MAX_ATTEMPTS THEN <<429, "locked">>
    ELSE <<0, "none">>

\* _verify_2fa_session: the error it answers with, 0 when the session passes
\* as <<status, reason>>
SessionError(challenge, t) ==
    IF challenge = NoChallenge THEN <<401, "invalid">>
    ELSE IF is_expired(challenge, t) THEN <<401, "expired">>
    ELSE IF challenge.used THEN <<401, "used">>
    ELSE IF challenge.attempts >= MAX_ATTEMPTS THEN <<429, "locked">>
    ELSE <<0, "none">>

RowLockFree_NoLock(lock, u, p) == TRUE

\* with_for_update(): the row lock is free, or already ours
RowLockFree(lock, u, p) == lock[u] \in {0, p}

\* twofa_verify, method 'passkey': a request not yet received
IdlePasskey ==
    [pc |-> "idle", session |-> 0, credential_id |-> 0, sign_count0 |-> 0,
     new_sign_count |-> 0, status |-> 0, user |-> 0, remaining |-> 0]

IdleTwoFA ==
    [pc |-> "idle", session |-> 0, method |-> "none", code |-> <<0, "upper">>,
     attempts0 |-> 0, otp0 |-> "None", list0 |-> <<>>, status |-> 0,
     why |-> "none", late |-> FALSE, fresh |-> FALSE, reuse |-> FALSE]

----------------------------------------------------------------------------
(* Accounts, login and the OIDC resolver *)

\* Deployment configuration (config.py), the self-hosted defaults
EMAIL_ENABLED == TRUE
REQUIRE_EMAIL_VERIFICATION == FALSE
OAUTH_AUTO_REGISTER == auto_register

\* An e-mail address is <<mailbox, letter case>>.  str.lower()
Lower(email) == <<email[1], "lower">>

NoEmail == <<0, "none">>
NoPasswordHash == <<"None">>
Passwords == {"initial", "chosen", "wrong"}
LetterCases == {"lower", "upper"}

\* An unused row of the users table
NoUser ==
    [exists |-> FALSE, password_hash |-> NoPasswordHash, email |-> NoEmail,
     email_verified_at |-> FALSE, password_change_required |-> FALSE,
     change_token |-> 0, change_token_expires |-> 0,
     password_reset_token |-> 0, password_reset_expires |-> 0]

\* A user created by an administrator (jwt create user): the password the
\* administrator chose, password_change_required set, e-mail not verified
InvitedUser(u) ==
    [NoUser EXCEPT !.exists = TRUE,
                   !.password_hash = generate_password_hash("initial"),
                   !.email = <<u, "mixed">>,
                   !.password_change_required = TRUE]

\* A user who has chosen a password and verified the e-mail address
EstablishedUser(u) ==
    [NoUser EXCEPT !.exists = TRUE,
                   !.password_hash = generate_password_hash("initial"),
                   !.email = <<u, "lower">>,
                   !.email_verified_at = TRUE]

check_password_Any(user, typed) == TRUE

\* User.check_password: no hash (an OIDC-only user) never matches
check_password(user, typed) ==
    /\ user.password_hash # NoPasswordHash
    /\ check_password_hash(user.password_hash, typed)

\* User.set_password
set_password(user, new_password) ==
    [user EXCEPT !.password_hash = generate_password_hash(new_password)]

\* The method list of a 2FA challenge response: methods.append('recovery')
\* is unconditional
Methods(config) ==
    (IF config.email_otp_enabled THEN {"email_otp"} ELSE {})
        \cup (IF config.passkey_enabled THEN {"passkey"} ELSE {})
        \cup {"recovery"}

AutoLinkAllowed_Always(user) == TRUE

\* _resolve_oauth_user step 2: 'if existing_user.email_verified_at'
AutoLinkAllowed(user) == user.email_verified_at

\* The primary key of the next inserted oauth_accounts row
NextLinkId(accts) ==
    IF accts = {} THEN 1
    ELSE 1 + (CHOOSE n \in {a.id : a \in accts} : \A a \in accts : a.id <= n)

\* OAuthAccount(user_id, provider, provider_user_id, provider_email); the
\* provider is 'oidc' where the route's provider is not named
NewLink(accts, u, sub, email) ==
    [id |-> NextLinkId(accts), user_id |-> u, provider |-> "oidc",
     provider_user_id |-> sub, provider_email |-> email]

UniqueLinks_Unchecked(accts) == TRUE

\* OAuthAccount: (provider, provider_user_id) is unique.  A commit that
\* would break it raises IntegrityError.
UniqueLinks(accts) ==
    \A a, b \in accts :
        (a.provider = b.provider /\ a.provider_user_id = b.provider_user_id)
            => a.id = b.id

\* The id the database gives the next inserted user
FreshUserIds(us) ==
    {u \in Accounts : ~us[u].exists /\ \A v \in Accounts : v < u => us[v].exists}

\* User.query.filter(func.lower(User.email) == email.lower())
UsersByEmail(us, email) ==
    {v \in Accounts : /\ us[v].exists
                      /\ us[v].email # NoEmail
                      /\ Lower(us[v].email) = Lower(email)}

LinksOf(accts, sub) == {a \in accts : a.provider_user_id = sub}

\* OAuthAccount.query.filter_by(user_id, provider)
LinksOfUser(accts, u) == {a \in accts : a.user_id = u}

\* The OAuth callbacks of a run with concurrent callbacks, in the order
\* they arrive
LinkReqs == 1..NumLinkReq

\* A callback between its queries and its commit: what it is about to write
IdleLink ==
    [pc |-> "idle", flow |-> "none", kind |-> "none", user |-> 0, target |-> 0,
     sub |-> 0, email |-> NoEmail]

\* A callback that has been answered
DoneLink == [IdleLink EXCEPT !.pc = "done"]

\* Database(name='db_<user id>', owner_id); users: the user_database_access
\* rows of the database
NewDatabase(u, granted) == [id |-> u, owner_id |-> u, users |-> granted]

\* Where a database error can strike the auto-registration: at the flush of
\* the user, at the flush of the database, at the commit that writes the
\* access grant and the link; "none": nowhere
RegistrationFaults == {"none", "user", "database", "commit"}

\* The rows written to the database when the fault strikes
StepsBefore(fault) ==
    CASE fault = "user" -> {}
      [] fault = "database" -> {"user"}
      [] fault = "commit" -> {"user", "database"}
      [] OTHER -> {"user", "database", "grant", "link"}

Persisted_PerStep(steps, fault) == steps

\* flush() does not commit: the one db.session.commit() at the end of
\* _resolve_oauth_user persists every row, and a request that raises
\* before it persists none
Persisted(steps, fault) == IF fault = "none" THEN steps ELSE {}

\* _resolve_oauth_user step 3: the new user, the default database with the
\* access grant, the link
AutoRegister(us, accts, dbs, sub, email, fault) ==
    LET n == CHOOSE x \in FreshUserIds(us) : TRUE
        kept == Persisted(StepsBefore(fault), fault)
    IN [user |-> IF fault = "none" THEN n ELSE 0,
        is_new |-> fault = "none",
        error |-> IF fault = "none" THEN "none" ELSE "server_error",
        users |-> IF "user" \in kept
                  THEN [us EXCEPT ![n] =
                          [NoUser EXCEPT !.exists = TRUE, !.email = email,
                                         !.email_verified_at = TRUE]]
                  ELSE us,
        databases |-> IF "database" \in kept
                      THEN dbs \cup {NewDatabase(n, IF "grant" \in kept
                                                    THEN {n} ELSE {})}
                      ELSE dbs,
        accounts |-> IF "link" \in kept
                     THEN accts \cup {NewLink(accts, n, sub, email)}
                     ELSE accts]

ResolveOAuthUser_EmailFirst(us, accts, dbs, sub, email, fault) ==
    LET linked == LinksOf(accts, sub)
        matching == UsersByEmail(us, email)
        failed(err) == [user |-> 0, is_new |-> FALSE, error |-> err,
                        users |-> us, accounts |-> accts, databases |-> dbs]
    IN IF matching # {}
       THEN LET v == CHOOSE x \in matching : TRUE
            IN IF AutoLinkAllowed(us[v])
               THEN [user |-> v, is_new |-> FALSE, error |-> "none",
                     users |-> us, databases |-> dbs,
                     accounts |-> accts \cup {NewLink(accts, v, sub, email)}]
               ELSE failed("email_not_verified")
       ELSE IF linked # {}
       THEN LET a == CHOOSE x \in linked : TRUE
            IN [user |-> a.user_id, is_new |-> FALSE, error |-> "none",
                users |-> us, databases |-> dbs,
                accounts |-> (accts \ {a}) \cup
                                {[a EXCEPT !.provider_email = email]}]
       ELSE IF ~OAUTH_AUTO_REGISTER
       THEN failed("account_not_found")
       ELSE AutoRegister(us, accts, dbs, sub, email, fault)

\* _resolve_oauth_user(provider, provider_user_id, email): the resolved
\* user (0: none), the error, and the tables as the call leaves them
ResolveOAuthUser(us, accts, dbs, sub, email, fault) ==
    LET linked == LinksOf(accts, sub)
        matching == UsersByEmail(us, email)
        failed(err) == [user |-> 0, is_new |-> FALSE, error |-> err,
                        users |-> us, accounts |-> accts, databases |-> dbs]
    IN IF linked # {}
       THEN LET a == CHOOSE x \in linked : TRUE
            IN [user |-> a.user_id, is_new |-> FALSE, error |-> "none",
                users |-> us, databases |-> dbs,
                accounts |-> (accts \ {a}) \cup
                                {[a EXCEPT !.provider_email = email]}]
       ELSE IF matching # {}
       THEN LET v == CHOOSE x \in matching : TRUE
            IN IF AutoLinkAllowed(us[v])
               THEN [user |-> v, is_new |-> FALSE, error |-> "none",
                     users |-> us, databases |-> dbs,
                     accounts |-> accts \cup {NewLink(accts, v, sub, email)}]
               ELSE failed("email_not_verified")
       ELSE IF ~OAUTH_AUTO_REGISTER
       THEN failed("account_not_found")
       ELSE AutoRegister(us, accts, dbs, sub, email, fault)

\* What a login / change-password / OAuth-callback response carries, and
\* what its request added to the tables
NoResponse ==
    [endpoint |-> "none", user |-> 0, primary |-> FALSE, twofa |-> FALSE,
     unverified_match |-> FALSE, status |-> 0, body |-> "none",
     session |-> 0, methods |-> {}, access |-> FALSE, rows |-> 0,
     links |-> 0, users |-> 0, nonce_differs |-> FALSE,
     aud_lacks_client |-> FALSE, id_token_invalid |-> FALSE,
     not_found |-> FALSE, registering |-> FALSE, fault |-> "none",
     databases |-> 0, grants |-> 0, linked_elsewhere |-> FALSE,
     links_changed |-> FALSE, jwt |-> NoJwt, at |-> 0, returned |-> FALSE,
     revocation |-> "none", token |-> 0, still_active |-> FALSE,
     frame_broken |-> FALSE, presented_revoked |-> FALSE,
     proof |-> FALSE, config_changed |-> FALSE, challenges_changed |-> FALSE,
     attempts_only |-> FALSE, challenge |-> 0, terminal |-> "none",
     correct |-> FALSE, dispatch_failed |-> FALSE, holds_code |-> FALSE,
     resolving |-> FALSE, linked_to |-> 0, email_users |-> {},
     email_claim |-> FALSE, session_user |-> 0, provider_contacted |-> FALSE,
     email_verified |-> [type |-> "none", text |-> "", case |-> "lower",
                         padded |-> FALSE]]

----------------------------------------------------------------------------
(* ID token validation of the OAuth callback *)

\* The id_token_nonce values oauth_authorize puts into state tokens
\* (secrets.token_hex(16), never empty), and the nonce claims an ID token
\* can carry (0: no nonce claim)
IdTokenNonces == 1..NumIdNonces
NonceClaims == IdTokenNonces \cup {0}

\* The aud claim: a string, a list of strings, or absent
AudClaims ==
    {<<"str", "client_id">>, <<"str", "other">>, <<"list", {"client_id", "other"}>>,
     <<"list", {"other"}>>, <<"none">>}

\* What authlib hands back for an ID token: whether the signature verifies
\* against the provider's key set, whether exp/iat/nbf validate, and the
\* claims.  sub 0: no sub claim.  The e-mail claim is the mailbox sub in
\* letter case k.
AllIdTokens ==
    [sig : BOOLEAN, time : BOOLEAN, iss : {"issuer", "other"}, aud : AudClaims,
     nonce : NonceClaims, sub : Accounts \cup {0}, k : LetterCases,
     email_verified : BOOLEAN]

\* claims.get('iss') != expected_issuer
IssuerMismatch(tok) == tok.iss # "issuer"

\* isinstance(aud, list): client_id not in aud; otherwise aud != client_id
AudienceMismatch(tok) ==
    IF tok.aud[1] = "list" THEN "client_id" \notin tok.aud[2]
    ELSE tok.aud # <<"str", "client_id">>

NonceMismatch_Skipped(expected, got) == FALSE

\* expected_nonce and claims.get('nonce') != expected_nonce
NonceMismatch(expected, got) == expected # 0 /\ got # expected

\* The try block of oauth_callback: <<status, error>> of the first check
\* that fails, <<0, "none">> when the token passes.  A decode or
\* claims.validate() exception is caught and answered 502.
IdTokenError(tok, expected_nonce) ==
    IF ~tok.sig \/ ~tok.time THEN <<502, "failed_to_verify_id_token">>
    ELSE IF IssuerMismatch(tok) THEN <<401, "issuer_mismatch">>
    ELSE IF AudienceMismatch(tok) THEN <<401, "audience_mismatch">>
    ELSE IF NonceMismatch(expected_nonce, tok.nonce) THEN <<401, "nonce_mismatch">>
    ELSE <<0, "none">>

\* What was wrong with the presented ID token, told from the token itself:
\* a validly signed token whose aud lacks the client id, a nonce claim that
\* is not the one of the state, a token that fails any of the validations
SignedAudLacksClient(tok) ==
    /\ tok.sig
    /\ tok.aud # <<"str", "client_id">>
    /\ ~(tok.aud[1] = "list" /\ "client_id" \in tok.aud[2])

NonceDiffers(tok, st) == tok.nonce # st.id_token_nonce

IdTokenInvalid(tok, st) ==
    \/ ~tok.sig \/ ~tok.time \/ tok.iss # "issuer"
    \/ SignedAudLacksClient(tok) \/ NonceDiffers(tok, st)
    \/ ~tok.email_verified \/ tok.sub = 0

----------------------------------------------------------------------------
Init ==
    /\ now = 0
    /\ refresh_tokens = {}
    /\ rreq = [p \in RefreshReqs |-> IdleRefresh]
    /\ state_tokens = {}
    /\ used_nonces = {}
    /\ nonce_last_cleanup = 0
    /\ vreq = [p \in VerifyReqs |-> IdleVerify]
    /\ twofa_config = [u \in Accounts |->
          IF u \in TwoFAUsers
          THEN [email_otp_enabled |-> TRUE, passkey_enabled |-> FALSE,
                recovery_codes_hash |-> HashAll(NewRecoveryCodes(0)),
                has_recovery_codes |-> TRUE]
          ELSE NoTwoFAConfig]
    /\ cfg_lock = [u \in Accounts |-> 0]
    /\ challenges = [c \in ChallengeIds |-> NoChallenge]
    /\ treq = [p \in TwoFAReqs |-> IdleTwoFA]
    /\ code_book = [u \in Accounts |->
          [current |-> IF u \in TwoFAUsers
                       THEN {NewRecoveryCodes(0)[i] : i \in 1..RecoveryCount}
                       ELSE {},
           consumed |-> {}]]
    /\ wrong_seen = [c \in ChallengeIds |-> 0]
    /\ users = [u \in Accounts |->
          IF u \in TwoFAUsers THEN EstablishedUser(u)
          ELSE IF u < NumAccounts THEN InvitedUser(u)
          ELSE NoUser]
    /\ oauth_accounts = {}
    /\ token_log = {}
    /\ response = NoResponse
    /\ databases = {}
    /\ auto_register = TRUE
    /\ lreq = [p \in LinkReqs |-> IdleLink]
    /\ enable_passkeys = FALSE
    /\ webauthn_credentials = {}
    /\ preq = [p \in PasskeyReqs |-> IdlePasskey]

----------------------------------------------------------------------------
(* Token issuance *)

\* create_access_token(user.id, user.role); create_refresh_token(user.id, ..)
\* at the end of a handler, with the issuance recorded in the log
IssueTokens(u, via) ==
    \E t \in FreshTokens :
        /\ refresh_tokens' = create_refresh_token(refresh_tokens, t, u, 0, now)
        /\ token_log' = Issued(token_log, t, u, via, is_enabled(twofa_config[u]))

----------------------------------------------------------------------------
(* Refresh-token endpoints *)

\* The tail of an authentication that issues tokens (jwt_login,
\* twofa_verify, oauth_callback): the refresh token is created and handed
\* to the client.
LoginIssueOf(u) ==
    /\ \E t \in FreshTokens :
         /\ refresh_tokens' = create_refresh_token(refresh_tokens, t, u, 0, now)
         /\ token_log' = Issued(token_log, t, u, "auth",
                                is_enabled(twofa_config[u]))
    /\ UNCHANGED <<now, rreq, notRefresh>>

LoginIssue(u) == u \in NextUsers /\ LoginIssueOf(u)

\* Tokens for which some POST /auth/refresh has answered 200
Rotated == {rreq[p].token : p \in {q \in RefreshReqs : rreq[q].status = 200}}

\* jwt_refresh, first half: verify_refresh_token(refresh_token)
RefreshVerify(p, token) ==
    /\ rreq[p].pc = "idle"
    /\ \A q \in RefreshReqs : q < p => rreq[q].pc # "idle"
    /\ LET found == ActiveRows(refresh_tokens, token)
           base == [rreq[p] EXCEPT !.token = token,
                                   !.replay = (token \in Rotated)]
       IN IF found = {}
          THEN /\ rreq' = [rreq EXCEPT ![p] =
                              [base EXCEPT !.pc = "done", !.status = 401]]
               /\ UNCHANGED refresh_tokens
          ELSE LET row == CHOOSE r \in found : TRUE
               IN IF RefreshExpired(row, now)
                  THEN /\ refresh_tokens' = RevokeById(refresh_tokens, row.id)
                       /\ rreq' = [rreq EXCEPT ![p] =
                              [base EXCEPT !.pc = "done", !.status = 401]]
                  ELSE /\ rreq' = [rreq EXCEPT ![p] =
                              [base EXCEPT !.pc = "verified", !.stored = row.id,
                                           !.user = row.user_id]]
                       /\ UNCHANGED refresh_tokens
    /\ UNCHANGED <<now, token_log, notRefresh>>

\* jwt_refresh, second half: stored_token.revoked = True, then
\* create_refresh_token commits the revocation together with the new row.
RefreshRotate(p) ==
    /\ rreq[p].pc = "verified"
    /\ \E t \in FreshTokens :
         /\ refresh_tokens' =
               create_refresh_token(RevokeById(refresh_tokens, rreq[p].stored),
                                    t, rreq[p].user, rreq[p].token, now)
         /\ token_log' = Issued(token_log, t, rreq[p].user, "refresh",
                                is_enabled(twofa_config[rreq[p].user]))
         /\ rreq' = [rreq EXCEPT ![p].pc = "done", ![p].status = 200,
                                 ![p].issued = t]
    /\ UNCHANGED <<now, notRefresh>>

\* What a revocation has done: a row it covers that is still not revoked,
\* and a row it does not cover that it changed
StillActive(after, covered) ==
    \E r \in covered : \E a \in after : a.id = r.id /\ ~a.revoked

FrameBroken(before, after, covered) ==
    (before \ covered) # {a \in after : \A r \in covered : a.id # r.id}

\* The answer of a revocation, kept when record is set
Revoked(record, kind, u, token, covered) ==
    IF record
    THEN response' = [NoResponse EXCEPT
            !.endpoint = kind, !.revocation = kind, !.status = 200,
            !.user = u, !.token = token,
            !.still_active = StillActive(refresh_tokens', covered),
            !.frame_broken = FrameBroken(refresh_tokens, refresh_tokens',
                                         covered)]
    ELSE UNCHANGED response

\* jwt_logout: revoke the presented token's row, valid or not
jwt_logout_as(token, record) ==
    /\ RowsByHash(refresh_tokens, token) # {}
    /\ LET row == CHOOSE r \in RowsByHash(refresh_tokens, token) : TRUE
       IN /\ refresh_tokens' = RevokeById(refresh_tokens, row.id)
          /\ Revoked(record, "logout", row.user_id, token,
                     RowsByHash(refresh_tokens, token))
    /\ UNCHANGED <<now, token_log, rreq, nonceVars, twofaVars, users,
                   oauth_accounts, databases, auto_register, lreq,
                   passkeyVars>>

jwt_logout(token) == jwt_logout_as(token, FALSE)

\* jwt_logout_all: one bulk UPDATE for the caller's user
jwt_logout_all_as(u, record) ==
    /\ refresh_tokens' = RevokeAllOf(refresh_tokens, u)
    /\ refresh_tokens' # refresh_tokens
    /\ Revoked(record, "logout_all", u, 0,
               {r \in refresh_tokens : r.user_id = u})
    /\ UNCHANGED <<now, token_log, rreq, nonceVars, twofaVars, users,
                   oauth_accounts, databases, auto_register, lreq,
                   passkeyVars>>

jwt_logout_all(u) == jwt_logout_all_as(u, FALSE)

TickRefresh ==
    /\ now + RefreshTick <= MaxRefreshTime
    /\ now' = now + RefreshTick
    /\ UNCHANGED <<refreshVars, notRefresh>>

NextRefresh ==
    \/ \E u \in UserIds : LoginIssue(u)
    \/ \E p \in RefreshReqs, t \in PresentableTokens : RefreshVerify(p, t)
    \/ \E p \in RefreshReqs : RefreshRotate(p)
    \/ \E t \in Tokens : jwt_logout(t)
    \/ \E u \in UserIds : jwt_logout_all(u)
    \/ TickRefresh

SpecRefresh == Init /\ [][NextRefresh]_vars

\* secrets.token_urlsafe(32) for the password reset token of user u: a value
\* no other user holds.  The values are opaque and the value u held is
\* overwritten, so one name per user stands for every value u is given.
FreshResetTokens(u) ==
    {n \in Accounts : n = u /\ \A v \in Accounts \ {u} :
                                  users[v].password_reset_token # n}

\* POST /auth/forgot-password with the e-mail address of user u
forgot_password(u) ==
    /\ users[u].exists
    /\ users[u].email # NoEmail
    /\ \E n \in FreshResetTokens(u) :
          users' = [users EXCEPT
             ![u].password_reset_token = n,
             ![u].password_reset_expires = now + PASSWORD_RESET_EXPIRES]
    /\ UNCHANGED <<now, refreshVars, nonceVars, twofaVars, oauth_accounts,
                   response, databases, auto_register, lreq,
                   passkeyVars>>

\* User.verify_password_reset_token
verify_password_reset_token(user, token, t) ==
    /\ user.password_reset_token # 0
    /\ user.password_reset_token = token
    /\ ~(t > user.password_reset_expires)

\* POST /auth/reset-password with a token and an acceptable new password
reset_password(token) ==
    LET found == {u \in Accounts :
                     token # 0 /\ users[u].exists
                     /\ users[u].password_reset_token = token}
        refuse(body) ==
            /\ response' = [NoResponse EXCEPT !.endpoint = "reset_password",
                                              !.status = 400, !.body = body]
            /\ UNCHANGED <<users, refresh_tokens>>
    IN /\ IF found = {}
          THEN refuse("invalid_token")
          ELSE LET u == CHOOSE x \in found : TRUE
               IN IF ~verify_password_reset_token(users[u], token, now)
                  THEN refuse("token_expired")
                  ELSE /\ users' = [users EXCEPT
                            ![u].password_hash = generate_password_hash("chosen"),
                            ![u].password_reset_token = 0,
                            ![u].password_reset_expires = 0,
                            ![u].password_change_required = FALSE]
                       /\ refresh_tokens' = RevokeAllOf(refresh_tokens, u)
                       /\ Revoked(TRUE, "reset_password", u, 0,
                                  {r \in refresh_tokens : r.user_id = u})
       /\ UNCHANGED <<now, token_log, rreq, nonceVars, twofaVars,
                      oauth_accounts, databases, auto_register, lreq,
                   passkeyVars>>

\* POST /auth/refresh served without interruption: verify_refresh_token,
\* then the rotation
jwt_refresh(token) ==
    LET found == ActiveRows(refresh_tokens, token)
        rows == RowsByHash(refresh_tokens, token)
        resp == [NoResponse EXCEPT
                    !.endpoint = "refresh", !.token = token,
                    !.presented_revoked =
                        rows # {} /\ \A r \in rows : r.revoked]
        answer(status) ==
            response' = [resp EXCEPT
                !.status = status, !.access = status = 200,
                !.rows = Cardinality(refresh_tokens')
                           - Cardinality(refresh_tokens),
                !.links_changed =
                    \E r \in refresh_tokens : r \notin refresh_tokens']
    IN /\ IF found = {}
          THEN /\ UNCHANGED tokenVars
               /\ answer(401)
          ELSE LET row == CHOOSE r \in found : TRUE
               IN IF RefreshExpired(row, now)
                  THEN /\ refresh_tokens' = RevokeById(refresh_tokens, row.id)
                       /\ UNCHANGED token_log
                       /\ answer(401)
                  ELSE /\ \E t \in FreshTokens :
                            /\ refresh_tokens' = create_refresh_token(
                                  RevokeById(refresh_tokens, row.id), t,
                                  row.user_id, token, now)
                            /\ token_log' = Issued(token_log, t, row.user_id,
                                  "refresh", is_enabled(twofa_config[row.user_id]))
                       /\ answer(200)
       /\ UNCHANGED <<now, rreq, nonceVars, twofaVars, users, oauth_accounts,
                      databases, auto_register, lreq,
                   passkeyVars>>

\* The users of the refresh-token endpoints here: those with an account,
\* each logging in for the first time only after the users before it
RevocationUsers ==
    {u \in Accounts :
        /\ users[u].exists
        /\ \A v \in Accounts :
              v < u => \E r \in refresh_tokens : r.user_id = v}

\* Logins, refreshes and the three revocations; a password is reset by
\* users who hold refresh tokens
NextRevoke ==
    \/ \E u \in RevocationUsers : LoginIssueOf(u)
    \/ \E t \in PresentableTokens : jwt_refresh(t)
    \/ \E t \in Tokens : jwt_logout_as(t, TRUE)
    \/ \E u \in {r.user_id : r \in refresh_tokens} :
          jwt_logout_all_as(u, TRUE)
    \/ \E u \in {r.user_id : r \in refresh_tokens} : forgot_password(u)
    \/ \E tok \in {users[u].password_reset_token : u \in Accounts} :
          reset_password(tok)

SpecRevoke == Init /\ [][NextRevoke]_vars

----------------------------------------------------------------------------
(* OAuth state tokens and the used-nonce set *)

\* oauth_authorize: hands a new state token to the client
oauth_authorize ==
    /\ \E n \in FreshNonces :
         state_tokens' = state_tokens \cup {NewStateToken(n, now)}
    /\ UNCHANGED <<now, used_nonces, nonce_last_cleanup, vreq, notNonce>>

\* State tokens some completed _verify_oauth_state call has accepted
AcceptedStates ==
    {vreq[p].token : p \in {q \in VerifyReqs : vreq[q].result = "payload"}}

\* _verify_oauth_state, up to and including the membership test:
\* lazy cleanup, signature/expiry/type check, 'state_nonce in _used_oauth_nonces'
VerifyStateCheck(p, tok) ==
    /\ vreq[p].pc = "idle"
    /\ \A q \in VerifyReqs : q < p => vreq[q].pc # "idle"
    /\ LET cleaned == CleanupUsedNonces(used_nonces, nonce_last_cleanup, now)
           base == [vreq[p] EXCEPT !.token = tok.state_nonce]
       IN /\ used_nonces' = cleaned[1]
          /\ nonce_last_cleanup' = cleaned[2]
          /\ IF StateTokenExpired(tok, now)
             THEN vreq' = [vreq EXCEPT ![p] =
                     [base EXCEPT !.pc = "done", !.result = "None",
                                  !.why = "expired"]]
             ELSE IF NonceUsed(cleaned[1], tok.state_nonce)
             THEN vreq' = [vreq EXCEPT ![p] =
                     [base EXCEPT !.pc = "done", !.result = "None",
                                  !.why = "replayed"]]
             ELSE vreq' = [vreq EXCEPT ![p] = [base EXCEPT !.pc = "absent"]]
    /\ UNCHANGED <<now, state_tokens, notNonce>>

\* _verify_oauth_state, the store after the test: mark the nonce used and
\* return the payload
VerifyStateInsert(p) ==
    /\ vreq[p].pc = "absent"
    /\ used_nonces' = MarkNonceUsed(used_nonces, vreq[p].token, now)
    /\ vreq' = [vreq EXCEPT ![p].pc = "done", ![p].result = "payload"]
    /\ UNCHANGED <<now, state_tokens, nonce_last_cleanup, notNonce>>

TickNonce ==
    /\ now + NonceTick <= MaxNonceTime
    /\ now' = now + NonceTick
    /\ UNCHANGED <<nonceVars, notNonce>>

NextNonce ==
    \/ oauth_authorize
    \/ \E p \in VerifyReqs, tok \in state_tokens : VerifyStateCheck(p, tok)
    \/ \E p \in VerifyReqs : VerifyStateInsert(p)
    \/ TickNonce

SpecNonce == Init /\ [][NextNonce]_vars

\* The moments at which the tokens a client presents were issued
IssueTimes == {0, NonceTick}

\* The JWTs a client presents: access tokens and state tokens the server
\* issued, and tokens with any claims signed with another key
PresentedJwts ==
    {create_access_token(u, t) : u \in UserIds, t \in IssueTimes}
    \cup {StateJwt(NewStateToken(n, t)) : n \in StateNonces, t \in IssueTimes}
    \cup {[j EXCEPT !.key = "other"] :
            j \in {create_access_token(u, 2 * MaxRefreshTime) : u \in UserIds}
                  \cup {StateJwt(NewStateToken(n, 2 * MaxRefreshTime)) :
                           n \in StateNonces}}

\* jwt_required: the bearer token goes through verify_access_token; 401
\* when it returns None, else the endpoint runs
jwt_required(jwt) ==
    LET ok == verify_access_token(jwt, now)
    IN /\ response' = [NoResponse EXCEPT
             !.endpoint = "jwt_required", !.jwt = jwt, !.at = now,
             !.returned = ok, !.status = IF ok THEN 200 ELSE 401,
             !.user = IF ok THEN jwt.user_id ELSE 0]
       /\ UNCHANGED <<now, refreshVars, nonceVars, twofaVars, users,
                      oauth_accounts, databases, auto_register, lreq,
                   passkeyVars>>

\* _verify_oauth_state(state_token) for any JWT as the state parameter
verify_oauth_state_of(jwt) ==
    LET cleaned == CleanupUsedNonces(used_nonces, nonce_last_cleanup, now)
        r == verify_oauth_state(jwt, cleaned[1], now)
    IN /\ used_nonces' = r[2]
       /\ nonce_last_cleanup' = cleaned[2]
       /\ response' = [NoResponse EXCEPT
             !.endpoint = "verify_oauth_state", !.jwt = jwt, !.at = now,
             !.returned = r[1]]
       /\ UNCHANGED <<now, refreshVars, state_tokens, vreq, twofaVars, users,
                      oauth_accounts, databases, auto_register, lreq,
                   passkeyVars>>

\* Tokens presented as bearer token and as state parameter while time passes
NextJwt ==
    \/ \E jwt \in PresentedJwts : jwt_required(jwt)
    \/ \E jwt \in PresentedJwts : verify_oauth_state_of(jwt)
    \/ TickNonce
    \/ TickRefresh

SpecJwt == Init /\ [][NextJwt]_vars

----------------------------------------------------------------------------
(* 2FA challenge sessions *)

OpenChallenges == {c \in ChallengeIds : challenges[c] # NoChallenge}

\* secrets.token_urlsafe(32) for the session token: the next unused value
FreshSessions ==
    {c \in ChallengeIds \ OpenChallenges :
        \A d \in ChallengeIds \ OpenChallenges : c <= d}

\* Recovery codes a client can type, in either letter case: a code some
\* request has already typed, the next code of the user's current list
\* nobody has typed yet (the codes of one list are interchangeable), or a
\* made-up value
TypedValues(u) ==
    {treq[p].code[1] : p \in {q \in TwoFAReqs :
        treq[q].pc # "idle" /\ challenges[treq[q].session].user_id = u}}

TypableCodes(u) ==
    LET untyped == {c[1] : c \in code_book[u].current} \ TypedValues(u)
        next == {n \in untyped : \A m \in untyped : n <= m}
    IN {<<n, k>> : n \in (TypedValues(u) \cup next) \ {0},
                   k \in {"upper", "lower"}}
          \cup {<<0, "upper">>}

Bump(n) == IF n > MAX_ATTEMPTS THEN n ELSE n + 1

\* jwt_login / oauth_callback for a user whose 2FA is enabled, primary
\* authentication passed: a 'pending' challenge row is created
LoginChallenge(u) ==
    /\ is_enabled(twofa_config[u])
    /\ \E c \in FreshSessions :
         challenges' = [challenges EXCEPT ![c] = NewChallenge(u, c, now)]
    /\ UNCHANGED <<now, twofa_config, cfg_lock, treq, code_book, wrong_seen,
                   tokenVars, notTwoFA>>

\* twofa_challenge, method 'email_otp': a new 6-digit code is hashed onto
\* the challenge row
twofa_challenge(c, otp) ==
    /\ SessionError(challenges[c], now)[1] = 0
    /\ challenges' = [challenges EXCEPT
          ![c].otp_code_hash = generate_password_hash(otp),
          ![c].challenge_type = "email_otp"]
    /\ UNCHANGED <<now, twofa_config, cfg_lock, treq, code_book, wrong_seen,
                   tokenVars, notTwoFA>>

\* twofa_verify, first statement: challenge, err = _verify_2fa_session(token).
\* The request keeps the row as loaded (attempts, otp_code_hash).
TwoFAVerifySession(p, c, method, code) ==
    /\ treq[p].pc = "idle"
    /\ challenges[c] # NoChallenge
    /\ LET ch == challenges[c]
           err == SessionError(ch, now)
           base == [IdleTwoFA EXCEPT
                      !.session = c, !.method = method, !.code = code,
                      !.attempts0 = ch.attempts, !.otp0 = ch.otp_code_hash,
                      !.late = (wrong_seen[c] >= MAX_ATTEMPTS),
                      !.fresh = (method = "recovery" /\ err[1] = 0 /\
                                 Upper(code) \in code_book[ch.user_id].current \
                                                 code_book[ch.user_id].consumed)]
       IN IF err[1] # 0
          THEN treq' = [treq EXCEPT ![p] =
                  [base EXCEPT !.pc = "done", !.status = err[1], !.why = err[2]]]
          ELSE treq' = [treq EXCEPT ![p] = [base EXCEPT !.pc = "checked"]]
    /\ UNCHANGED <<now, twofa_config, cfg_lock, challenges, code_book,
                   wrong_seen, tokenVars, notTwoFA>>

\* twofa_verify, method 'email_otp': compare, then either attempts += 1 or
\* used = True; both write what the request loaded, then commit
VerifyEmailOtp(p) ==
    /\ treq[p].pc = "checked"
    /\ treq[p].method = "email_otp"
    /\ LET c == treq[p].session
       IN IF treq[p].otp0 = "None"
          THEN /\ challenges' = [challenges EXCEPT
                     ![c].attempts = treq[p].attempts0 + 1]
               /\ treq' = [treq EXCEPT ![p].pc = "done", ![p].status = 400,
                                       ![p].why = "missing"]
               /\ UNCHANGED <<wrong_seen, tokenVars>>
          ELSE IF check_password_hash(treq[p].otp0, treq[p].code[1])
          THEN /\ challenges' = [challenges EXCEPT ![c].used = TRUE]
               /\ treq' = [treq EXCEPT ![p].pc = "done", ![p].status = 200,
                                       ![p].why = "tokens"]
               /\ IssueTokens(challenges[c].user_id, "2fa_verify")
               /\ UNCHANGED wrong_seen
          ELSE /\ challenges' = [challenges EXCEPT
                     ![c].attempts = treq[p].attempts0 + 1]
               /\ treq' = [treq EXCEPT ![p].pc = "done", ![p].status = 400,
                                       ![p].why = "wrong_code"]
               /\ wrong_seen' = [wrong_seen EXCEPT ![c] = Bump(@)]
               /\ UNCHANGED tokenVars
    /\ UNCHANGED <<now, twofa_config, cfg_lock, code_book, notTwoFA>>

\* twofa_verify, method 'recovery': SELECT twofa_config ... FOR UPDATE.
\* Waits while another request holds the row; reads the committed list.
VerifyRecoveryLock(p) ==
    /\ treq[p].pc = "checked"
    /\ treq[p].method = "recovery"
    /\ LET u == challenges[treq[p].session].user_id
       IN /\ RowLockFree(cfg_lock, u, p)
          /\ IF NoRecoveryCodes(twofa_config[u])
             THEN /\ treq' = [treq EXCEPT ![p].pc = "done", ![p].status = 400,
                                          ![p].why = "no_codes",
                                          ![p].fresh = FALSE]
                  /\ UNCHANGED cfg_lock
             ELSE /\ cfg_lock' = [cfg_lock EXCEPT ![u] = p]
                  /\ treq' = [treq EXCEPT
                        ![p].pc = "locked",
                        ![p].list0 = twofa_config[u].recovery_codes_hash,
                        ![p].fresh = (@ /\ Upper(treq[p].code) \in
                                              code_book[u].current),
                        ![p].reuse = (Upper(treq[p].code) \in
                                              code_book[u].consumed)]
    /\ UNCHANGED <<now, twofa_config, challenges, code_book, wrong_seen,
                   tokenVars, notTwoFA>>

\* twofa_verify, method 'recovery', under the row lock: find the matching
\* hash, pop it and mark the challenge used, or count a failed attempt;
\* the commit releases the lock
VerifyRecoveryCommit(p) ==
    /\ treq[p].pc = "locked"
    /\ LET c == treq[p].session
           u == challenges[c].user_id
           idx == MatchedIdx(treq[p].list0, treq[p].code)
       IN /\ cfg_lock' = [cfg_lock EXCEPT ![u] = IF @ = p THEN 0 ELSE @]
          /\ IF idx # 0
             THEN /\ twofa_config' = [twofa_config EXCEPT
                        ![u].recovery_codes_hash = Pop(treq[p].list0, idx)]
                  /\ challenges' = [challenges EXCEPT ![c].used = TRUE]
                  /\ treq' = [treq EXCEPT ![p].pc = "done", ![p].status = 200,
                                          ![p].why = "tokens"]
                  /\ code_book' = [code_book EXCEPT
                        ![u].consumed = @ \cup {Upper(treq[p].code)}]
                  /\ IssueTokens(u, "2fa_verify")
                  /\ UNCHANGED wrong_seen
             ELSE /\ challenges' = [challenges EXCEPT
                        ![c].attempts = treq[p].attempts0 + 1]
                  /\ treq' = [treq EXCEPT ![p].pc = "done", ![p].status = 400,
                                          ![p].why = "no_match"]
                  /\ wrong_seen' = [wrong_seen EXCEPT ![c] = Bump(@)]
                  /\ UNCHANGED <<twofa_config, code_book, tokenVars>>
    /\ UNCHANGED <<now, notTwoFA>>

\* The response has been delivered; the worker serves the next request
Respond(p) ==
    /\ treq[p].pc = "done"
    /\ treq' = [treq EXCEPT ![p] = IdleTwoFA]
    /\ UNCHANGED <<now, twofa_config, cfg_lock, challenges, code_book,
                   wrong_seen, tokenVars, notTwoFA>>

\* Recovery-code redemption: logins and recovery verifications on any open
\* challenge.  Users and workers are interchangeable: a user first logs in,
\* and a worker first serves, only after the ones before it.
NextRecovery ==
    \/ \E u \in TwoFAUsers :
          /\ \A v \in TwoFAUsers :
                v < u => \E c \in OpenChallenges : challenges[c].user_id = v
          /\ LoginChallenge(u)
    \/ \E p \in TwoFAReqs, c \in OpenChallenges :
          \E code \in TypableCodes(challenges[c].user_id) :
              /\ \A q \in TwoFAReqs : q < p => treq[q].pc # "idle"
              /\ TwoFAVerifySession(p, c, "recovery", code)
    \/ \E p \in TwoFAReqs : VerifyRecoveryLock(p)
    \/ \E p \in TwoFAReqs : VerifyRecoveryCommit(p)

SpecRecovery == Init /\ [][NextRecovery]_vars

\* Attempt counting: one login challenge at a time, email codes requested
\* and submitted by workers that serve one request after another
NextAttempts ==
    \/ \E u \in TwoFAUsers : OpenChallenges = {} /\ LoginChallenge(u)
    \/ \E c \in OpenChallenges, otp \in OtpCodes : twofa_challenge(c, otp)
    \/ \E p \in TwoFAReqs, c \in OpenChallenges, otp \in OtpCodes :
          TwoFAVerifySession(p, c, "email_otp", <<otp, "upper">>)
    \/ \E p \in TwoFAReqs : VerifyEmailOtp(p)
    \/ \E p \in TwoFAReqs : Respond(p)

SpecAttempts == Init /\ [][NextAttempts]_vars

----------------------------------------------------------------------------
(* Login, change-password and the OAuth callback *)

notLogin == <<rreq, nonceVars, cfg_lock, treq, wrong_seen, auto_register, lreq,
                   passkeyVars>>

\* Users some response has handed an access token
Holders == {e.user_id : e \in token_log}

\* The common tail of jwt_login and oauth_callback: a 'pending' challenge
\* and 403 twofa_required when the user's 2FA is enabled (the callback skips
\* the test in the link flow), the token pair otherwise
ChallengeOrTokens(u, via, link_flow, resp) ==
    IF ~link_flow /\ is_enabled(twofa_config[u])
    THEN /\ \E c \in FreshSessions :
              /\ challenges' = [challenges EXCEPT ![c] = NewChallenge(u, c, now)]
              /\ response' = [resp EXCEPT !.status = 403, !.body = "twofa_required",
                                      !.session = c,
                                      !.methods = Methods(twofa_config[u])]
         /\ UNCHANGED tokenVars
    ELSE /\ IssueTokens(u, via)
         /\ response' = [resp EXCEPT
               !.status = 200, !.body = "tokens", !.access = TRUE,
               !.rows = Cardinality(refresh_tokens') - Cardinality(refresh_tokens)]
         /\ UNCHANGED challenges

\* secrets.token_hex(32) for a change token.  The values are opaque: one
\* that is no longer stored is to every lookup a made-up value.
FreshChangeTokens ==
    LET unused == {n \in Accounts : \A v \in Accounts : users[v].change_token # n}
    IN {n \in unused : \A m \in unused : n <= m}

CredentialError_Reveals(user) ==
    IF user.exists THEN <<401, "invalid_credentials">>
    ELSE <<401, "unknown_user">>

\* The answer of login and jwt_login when the user is not found or the
\* password does not match: one return statement for both
CredentialError(user) == <<401, "invalid_credentials">>

\* POST /auth/login
jwt_login(u, typed) ==
    LET user == users[u]
        resp == [NoResponse EXCEPT !.endpoint = "login", !.user = u,
                                   !.twofa = is_enabled(twofa_config[u])]
        passed == [resp EXCEPT !.primary = TRUE]
    IN /\ IF ~user.exists \/ ~check_password(user, typed)
          THEN /\ response' = [resp EXCEPT
                                  !.status = CredentialError(user)[1],
                                  !.body = CredentialError(user)[2]]
               /\ UNCHANGED <<users, challenges, tokenVars>>
          ELSE IF EMAIL_ENABLED /\ REQUIRE_EMAIL_VERIFICATION
                  /\ ~user.email_verified_at
          THEN /\ response' = [passed EXCEPT !.status = 403,
                              !.body = "email_verification_required"]
               /\ UNCHANGED <<users, challenges, tokenVars>>
          ELSE IF user.password_change_required
          THEN /\ \E tok \in FreshChangeTokens :
                    users' = [users EXCEPT
                        ![u].change_token = tok,
                        ![u].change_token_expires = now + CHANGE_TOKEN_EXPIRES]
               /\ response' = [passed EXCEPT !.status = 403,
                              !.body = "password_change_required"]
               /\ UNCHANGED <<challenges, tokenVars>>
          ELSE /\ ChallengeOrTokens(u, "login", FALSE, passed)
               /\ UNCHANGED users
       /\ UNCHANGED <<now, twofa_config, code_book, oauth_accounts, databases,
                      notLogin>>

\* POST /auth/change-password with a change token (0: a made-up one) and a
\* valid new password
jwt_change_password(tok) ==
    LET found == {u \in Accounts :
                     users[u].exists /\ tok # 0 /\ users[u].change_token = tok}
        resp == [NoResponse EXCEPT !.endpoint = "change_password"]
    IN /\ IF found = {}
          THEN /\ response' = [resp EXCEPT !.status = 401,
                                       !.body = "invalid_change_token"]
               /\ UNCHANGED <<users, tokenVars>>
          ELSE LET u == CHOOSE x \in found : TRUE
                   mine == [resp EXCEPT !.user = u,
                                        !.twofa = is_enabled(twofa_config[u])]
               IN IF users[u].change_token_expires < now
                  THEN /\ response' = [mine EXCEPT !.status = 401,
                                               !.body = "change_token_expired"]
                       /\ UNCHANGED <<users, tokenVars>>
                  ELSE /\ users' = [users EXCEPT ![u] =
                             [set_password(users[u], "chosen") EXCEPT
                                 !.password_change_required = FALSE,
                                 !.change_token = 0,
                                 !.change_token_expires = 0]]
                       /\ IssueTokens(u, "change_password")
                       /\ response' = [mine EXCEPT
                             !.status = 200, !.body = "tokens", !.access = TRUE,
                             !.rows = Cardinality(refresh_tokens')
                                          - Cardinality(refresh_tokens)]
       /\ UNCHANGED <<now, twofa_config, code_book, challenges, oauth_accounts,
                      databases, notLogin>>

\* POST /auth/verify-email with the token mailed to the user
verify_email(u) ==
    /\ users[u].exists
    /\ users[u].email # NoEmail
    /\ ~users[u].email_verified_at
    /\ users' = [users EXCEPT ![u].email_verified_at = TRUE]
    /\ UNCHANGED <<now, twofa_config, code_book, challenges, oauth_accounts,
                   tokenVars, response, databases, notLogin>>

LinkedElsewhere_Unchecked(accts, sub, u) == FALSE

\* oauth_callback, link flow: existing_provider_link and
\* existing_provider_link.user_id != link_user.id
LinkedElsewhere(accts, sub, u) == \E a \in LinksOf(accts, sub) : a.user_id # u

\* oauth_callback, link flow: account_for_user_provider, the row .first()
\* gives of the user's rows (no ORDER BY: any of them); 0: the user has none
LinkTargets(accts, u) ==
    IF LinksOfUser(accts, u) = {} THEN {0} ELSE {a.id : a \in LinksOfUser(accts, u)}

\* oauth_callback, link flow: the found row is pointed at the identity, or
\* a new row is inserted
LinkWrite(accts, target, u, sub, email) ==
    IF target = 0 THEN accts \cup {NewLink(accts, u, sub, email)}
    ELSE {IF a.id = target
          THEN [a EXCEPT !.provider_user_id = sub, !.provider_email = email]
          ELSE a : a \in accts}

\* An exception that escapes the handler: 500, the transaction rolled back
ServerError(resp) ==
    /\ response' = [resp EXCEPT !.status = 500, !.body = "server_error"]
    /\ UNCHANGED <<users, oauth_accounts, databases, challenges, tokenVars>>

\* POST /auth/oauth/<provider>/callback with a valid state and ID token.
\* The provider identity sub claims the e-mail address mailbox, spelled in
\* letter case k, as verified or not (pv); a link-flow state names
\* link_user, the user whose access token oauth_authorize saw.  base: what
\* is already known of the answer; fault: where a database error strikes
\* an auto-registration.
oauth_callback_from(base, flow, link_user, sub, mailbox, k, pv, fault) ==
    LET email == IF mailbox = 0 THEN NoEmail ELSE Lower(<<mailbox, k>>)
        unlinked == flow = "login" /\ LinksOf(oauth_accounts, sub) = {}
        resp == [base EXCEPT
                    !.endpoint = IF flow = "link" THEN "oauth_link"
                                                  ELSE "oauth_login",
                    !.unverified_match =
                        /\ unlinked
                        /\ \E v \in UsersByEmail(users, <<mailbox, k>>) :
                              ~users[v].email_verified_at,
                    !.not_found =
                        /\ pv /\ unlinked /\ ~auto_register
                        /\ UsersByEmail(users, <<mailbox, k>>) = {},
                    !.registering =
                        /\ pv /\ unlinked /\ auto_register
                        /\ UsersByEmail(users, <<mailbox, k>>) = {},
                    !.fault = fault,
                    !.resolving = pv /\ flow = "login",
                    !.linked_to =
                        IF pv /\ flow = "login"
                              /\ LinksOf(oauth_accounts, sub) # {}
                        THEN (CHOOSE a \in LinksOf(oauth_accounts, sub) :
                                 TRUE).user_id
                        ELSE 0,
                    !.email_users =
                        IF pv /\ flow = "login"
                        THEN UsersByEmail(users, <<mailbox, k>>) ELSE {},
                    !.linked_elsewhere =
                        /\ pv /\ flow = "link"
                        /\ \E a \in oauth_accounts :
                              a.provider_user_id = sub /\ a.user_id # link_user]
    IN /\ flow = "link" => link_user \in Holders
       /\ flow = "login" => link_user = 0
       /\ IF ~pv
          THEN /\ response' = [resp EXCEPT !.status = 401,
                                       !.body = "provider_email_not_verified"]
               /\ UNCHANGED <<users, oauth_accounts, databases, challenges,
                              tokenVars>>
          ELSE IF flow = "link"
          THEN IF LinkedElsewhere(oauth_accounts, sub, link_user)
               THEN /\ response' = [resp EXCEPT !.user = link_user, !.status = 409,
                                            !.body = "linked_to_another_user"]
                    /\ UNCHANGED <<users, oauth_accounts, databases, challenges,
                                   tokenVars>>
               ELSE \E target \in LinkTargets(oauth_accounts, link_user) :
                      LET accts == LinkWrite(oauth_accounts, target, link_user,
                                             sub, email)
                      IN IF ~UniqueLinks(accts)
                         THEN ServerError([resp EXCEPT !.user = link_user])
                         ELSE /\ oauth_accounts' = accts
                              /\ ChallengeOrTokens(link_user, "oauth_link", TRUE,
                                    [resp EXCEPT
                                        !.user = link_user,
                                        !.twofa = is_enabled(twofa_config[link_user]),
                                        !.links = Cardinality(accts)
                                                    - Cardinality(oauth_accounts),
                                        !.links_changed = accts # oauth_accounts])
                              /\ UNCHANGED <<users, databases>>
          ELSE LET r == ResolveOAuthUser(users, oauth_accounts, databases, sub,
                                         email, fault)
                   added(new, old) == Cardinality(new) - Cardinality(old)
                   done == [resp EXCEPT
                              !.user = r.user,
                              !.links = added(r.accounts, oauth_accounts),
                              !.links_changed = r.accounts # oauth_accounts,
                              !.users = Cardinality({u \in Accounts : r.users[u].exists})
                                          - Cardinality({u \in Accounts : users[u].exists}),
                              !.databases = added(r.databases, databases),
                              !.grants = Cardinality(
                                  {d \in r.databases \ databases : d.users # {}})]
               IN /\ \/ LinksOf(oauth_accounts, sub) # {}
                     \/ UsersByEmail(users, email) # {}
                     \/ FreshUserIds(users) # {}
                     \/ ~OAUTH_AUTO_REGISTER
                  /\ resp.registering \/ fault = "none"
                  /\ IF ~UniqueLinks(r.accounts)
                     THEN ServerError(resp)
                     ELSE IF r.error = "server_error"
                     THEN /\ response' = [done EXCEPT !.status = 500,
                                                  !.body = r.error]
                          /\ users' = r.users
                          /\ oauth_accounts' = r.accounts
                          /\ databases' = r.databases
                          /\ UNCHANGED <<challenges, tokenVars>>
                     ELSE IF r.error # "none"
                     THEN /\ response' = [resp EXCEPT !.status = 409,
                                                  !.body = r.error]
                          /\ UNCHANGED <<users, oauth_accounts, databases,
                                         challenges, tokenVars>>
                     ELSE /\ users' = r.users
                          /\ oauth_accounts' = r.accounts
                          /\ databases' = r.databases
                          /\ ChallengeOrTokens(r.user, "oauth_login", FALSE,
                                [done EXCEPT
                                    !.primary = TRUE,
                                    !.twofa = is_enabled(twofa_config[r.user])])
       /\ UNCHANGED <<now, twofa_config, code_book, notLogin>>

oauth_callback(flow, link_user, sub, k, pv) ==
    oauth_callback_from(NoResponse, flow, link_user, sub, sub, k, pv, "none")

\* POST /auth/2fa/setup/email/confirm by a signed-in user, with the code of
\* the setup challenge: e-mail OTP is enabled, and recovery codes are
\* generated when the user has none
twofa_setup_email_confirm(u) ==
    /\ u \in Holders
    /\ users[u].email # NoEmail
    /\ ~twofa_config[u].email_otp_enabled
    /\ LET codes == NewRecoveryCodes(0)
           none == NoRecoveryCodes(twofa_config[u])
       IN /\ twofa_config' = [twofa_config EXCEPT
                ![u].email_otp_enabled = TRUE,
                ![u].recovery_codes_hash = IF none THEN HashAll(codes) ELSE @,
                ![u].has_recovery_codes = TRUE]
          /\ code_book' = [code_book EXCEPT
                ![u].current = IF none THEN {codes[i] : i \in 1..RecoveryCount}
                               ELSE @]
    /\ UNCHANGED <<now, users, challenges, oauth_accounts, tokenVars, response,
                   databases, notLogin>>

\* The flow of a state token with its link_user_id: oauth_authorize makes a
\* link-flow state only for the bearer of a valid access token
OAuthInputs ==
    {<<"login", 0>>} \cup {<<"link", u>> : u \in Holders}

\* The number of token pairs these endpoints hand out is capped
WithinIssueBound == Cardinality(token_log') <= MaxIssued

\* Password login, change-password, e-mail verification, the OAuth
\* callback and 2FA setup
NextLogin ==
    \/ \E u \in Accounts, typed \in Passwords :
          jwt_login(u, typed) /\ WithinIssueBound
    \/ \E tok \in {users[u].change_token : u \in Accounts} :
          jwt_change_password(tok) /\ WithinIssueBound
    \/ \E u \in Accounts : verify_email(u)
    \/ \E f \in OAuthInputs, sub \in Accounts, k \in LetterCases,
          pv \in BOOLEAN :
          oauth_callback(f[1], f[2], sub, k, pv) /\ WithinIssueBound
    \/ \E u \in Accounts : twofa_setup_email_confirm(u)

SpecLogin == Init /\ [][NextLogin]_vars

\* The OIDC resolver on its own: callbacks in both flows and e-mail
\* verification
NextOAuth ==
    \/ \E f \in OAuthInputs, sub \in Accounts, k \in LetterCases,
          pv \in BOOLEAN :
          oauth_callback(f[1], f[2], sub, k, pv) /\ WithinIssueBound
    \/ \E u \in Accounts : verify_email(u)

SpecOAuth == Init /\ [][NextOAuth]_vars

\* The server is started again with OAUTH_AUTO_REGISTER set to b: requests
\* in flight are gone and the used-nonce set, held in memory, is empty
Restart(b) ==
    /\ b # auto_register
    /\ auto_register' = b
    /\ used_nonces' = {}
    /\ nonce_last_cleanup' = 0
    /\ rreq' = [p \in RefreshReqs |-> IdleRefresh]
    /\ vreq' = [p \in VerifyReqs |-> IdleVerify]
    /\ treq' = [p \in TwoFAReqs |-> IdleTwoFA]
    /\ cfg_lock' = [u \in Accounts |-> 0]
    /\ lreq' = [p \in LinkReqs |-> IdleLink]
    /\ preq' = [p \in PasskeyReqs |-> IdlePasskey]
    /\ UNCHANGED <<now, tokenVars, state_tokens, twofa_config, challenges,
                   code_book, wrong_seen, users, oauth_accounts, response,
                   databases, enable_passkeys, webauthn_credentials>>

\* DELETE /auth/oauth/<provider> by the bearer of an access token of user u
oauth_unlink_provider(u) ==
    LET mine == LinksOfUser(oauth_accounts, u)
        resp == [NoResponse EXCEPT !.endpoint = "oauth_unlink", !.user = u]
    IN /\ u \in Holders
       /\ IF mine = {}
          THEN /\ response' = [resp EXCEPT !.status = 404, !.body = "not_linked"]
               /\ UNCHANGED oauth_accounts
          ELSE IF users[u].password_hash = NoPasswordHash
          THEN /\ response' = [resp EXCEPT !.status = 400,
                                       !.body = "only_login_method"]
               /\ UNCHANGED oauth_accounts
          ELSE \E a \in mine :
                 /\ oauth_accounts' = oauth_accounts \ {a}
                 /\ response' = [resp EXCEPT !.status = 200, !.body = "unlinked",
                                             !.links = 0 - 1,
                                             !.links_changed = TRUE]
       /\ UNCHANGED <<now, users, databases, challenges, tokenVars,
                      twofa_config, code_book, notLogin>>

\* The database faults a callback can meet: those of the auto-registration,
\* which only a login with a verified provider e-mail reaches
FaultsOf(flow, pv) ==
    IF flow = "login" /\ pv THEN RegistrationFaults ELSE {"none"}

\* Accounts through OIDC: callbacks in both flows with any database fault,
\* and restarts that switch auto-registration
NextAccounts ==
    \/ \E f \in OAuthInputs, sub \in Accounts, pv \in BOOLEAN :
          \E fault \in FaultsOf(f[1], pv) :
             /\ oauth_callback_from(NoResponse, f[1], f[2], sub, sub, "upper",
                                    pv, fault)
             /\ WithinIssueBound
    \/ \E b \in BOOLEAN : Restart(b)

SpecAccounts == Init /\ [][NextAccounts]_vars

\* The e-mail address a provider identity claims: its own mailbox, or for
\* the identities after the first also the mailbox of the one before
Mailboxes(sub) == {m \in Accounts : m = sub \/ m + 1 = sub}

\* oauth_callback up to its last query, for a valid state and an ID token
\* with a verified e-mail: the request is answered with an error, or knows
\* what it will write
CallbackRead(p, flow, link_user, sub, mailbox) ==
    LET email == <<mailbox, "lower">>
        linked == LinksOf(oauth_accounts, sub)
        matching == UsersByEmail(users, email)
        plan(kind, u, target) ==
            [pc |-> "write", flow |-> flow, kind |-> kind, user |-> u,
             target |-> target, sub |-> sub, email |-> email]
        registering == Cardinality({q \in LinkReqs : lreq[q].kind = "register"})
        free == Cardinality({u \in Accounts : ~users[u].exists})
        refuse(u, body) ==
            /\ response' = [NoResponse EXCEPT
                  !.endpoint = IF flow = "link" THEN "oauth_link"
                                                ELSE "oauth_login",
                  !.user = u, !.status = 409, !.body = body]
            /\ lreq' = [lreq EXCEPT ![p] = DoneLink]
        go(kind, u, target) ==
            /\ lreq' = [lreq EXCEPT ![p] = plan(kind, u, target)]
            /\ UNCHANGED response
    IN /\ lreq[p].pc = "idle"
       /\ \A q \in LinkReqs : q < p => lreq[q].pc # "idle"
       /\ flow = "link" => link_user \in Holders
       /\ flow = "login" => link_user = 0
       /\ IF flow = "link"
          THEN IF LinkedElsewhere(oauth_accounts, sub, link_user)
               THEN refuse(link_user, "linked_to_another_user")
               ELSE \E target \in LinkTargets(oauth_accounts, link_user) :
                      go(IF target = 0 THEN "insert" ELSE "update", link_user,
                         target)
          ELSE IF linked # {}
          THEN LET a == CHOOSE x \in linked : TRUE
               IN go("touch", a.user_id, a.id)
          ELSE IF matching # {}
          THEN LET v == CHOOSE x \in matching : TRUE
               IN IF AutoLinkAllowed(users[v]) THEN go("insert", v, 0)
                  ELSE refuse(0, "email_not_verified")
          ELSE IF ~OAUTH_AUTO_REGISTER
          THEN refuse(0, "account_not_found")
          ELSE registering < free /\ go("register", 0, 0)
       /\ UNCHANGED <<now, users, oauth_accounts, databases, challenges,
                      tokenVars, twofa_config, code_book, rreq, nonceVars,
                      cfg_lock, treq, wrong_seen, auto_register,
                      passkeyVars>>

\* oauth_callback from its write on: the commit, which the database refuses
\* when it breaks a unique constraint or the row to update is gone, and the
\* challenge or the tokens
CallbackWrite(p) ==
    LET plan == lreq[p]
        row == {a \in oauth_accounts : a.id = plan.target}
        resp == [NoResponse EXCEPT
                    !.endpoint = IF plan.flow = "link" THEN "oauth_link"
                                                       ELSE "oauth_login"]
        r == CASE plan.kind = "register" ->
                    AutoRegister(users, oauth_accounts, databases, plan.sub,
                                 plan.email, "none")
               [] plan.kind = "insert" ->
                    [user |-> plan.user, users |-> users, databases |-> databases,
                     accounts |-> oauth_accounts \cup
                        {NewLink(oauth_accounts, plan.user, plan.sub, plan.email)}]
               [] plan.kind = "update" ->
                    [user |-> plan.user, users |-> users, databases |-> databases,
                     accounts |-> LinkWrite(oauth_accounts, plan.target,
                                            plan.user, plan.sub, plan.email)]
               [] OTHER ->
                    [user |-> plan.user, users |-> users, databases |-> databases,
                     accounts |-> {IF a.id = plan.target
                                   THEN [a EXCEPT !.provider_email = plan.email]
                                   ELSE a : a \in oauth_accounts}]
        refused == \/ plan.kind \in {"update", "touch"} /\ row = {}
                   \/ /\ plan.kind = "register"
                      /\ \E u \in Accounts : /\ users[u].exists
                                              /\ users[u].email = plan.email
                   \/ ~UniqueLinks(r.accounts)
    IN /\ plan.pc = "write"
       /\ lreq' = [lreq EXCEPT ![p] = DoneLink]
       /\ IF refused
          THEN ServerError(resp)
          ELSE /\ users' = r.users
               /\ oauth_accounts' = r.accounts
               /\ databases' = r.databases
               /\ ChallengeOrTokens(r.user, resp.endpoint, plan.flow = "link",
                     [resp EXCEPT
                        !.user = r.user,
                        !.primary = plan.flow = "login",
                        !.twofa = is_enabled(twofa_config[r.user]),
                        !.links = Cardinality(r.accounts)
                                    - Cardinality(oauth_accounts),
                        !.links_changed = r.accounts # oauth_accounts])
       /\ UNCHANGED <<now, twofa_config, code_book, rreq, nonceVars, cfg_lock,
                      treq, wrong_seen, auto_register, passkeyVars>>

\* Concurrent OAuth callbacks of both flows, unlinking and e-mail
\* verification
NextLinks ==
    \/ \E p \in LinkReqs, f \in OAuthInputs, sub \in Accounts :
          \E mailbox \in Mailboxes(sub) :
             CallbackRead(p, f[1], f[2], sub, mailbox)
    \/ \E p \in LinkReqs : CallbackWrite(p) /\ WithinIssueBound
    \/ \E u \in Accounts : oauth_unlink_provider(u)
    \/ \E u \in Accounts : verify_email(u)

SpecLinks == Init /\ [][NextLinks]_vars

----------------------------------------------------------------------------
(* The OAuth callback with its ID token *)

\* A rejected callback: the answer, and nothing written
RejectCallback(resp) ==
    /\ response' = resp
    /\ UNCHANGED <<users, oauth_accounts, databases, challenges, tokenVars>>

\* POST /auth/oauth/<provider>/callback with an accepted state payload st
\* and the ID token tok of the code exchange: the validations in the order
\* of the code, then the link flow or the resolver
oauth_callback_id_token(st, tok) ==
    LET err == IdTokenError(tok, st.id_token_nonce)
        resp == [NoResponse EXCEPT
                    !.endpoint = IF st.flow = "link" THEN "oauth_link"
                                                     ELSE "oauth_login",
                    !.nonce_differs = NonceDiffers(tok, st),
                    !.aud_lacks_client = SignedAudLacksClient(tok),
                    !.id_token_invalid = IdTokenInvalid(tok, st)]
    IN IF err[1] # 0
       THEN /\ RejectCallback([resp EXCEPT !.status = err[1], !.body = err[2]])
            /\ UNCHANGED <<now, twofa_config, code_book, notLogin>>
       ELSE IF ~tok.email_verified
       THEN /\ RejectCallback([resp EXCEPT !.status = 401,
                                   !.body = "provider_email_not_verified"])
            /\ UNCHANGED <<now, twofa_config, code_book, notLogin>>
       ELSE IF tok.sub = 0
       THEN /\ RejectCallback([resp EXCEPT !.status = 502, !.body = "no_subject"])
            /\ UNCHANGED <<now, twofa_config, code_book, notLogin>>
       ELSE oauth_callback_from(resp, st.flow, st.link_user_id, tok.sub,
                                tok.sub, tok.k, TRUE, "none")

\* The ID tokens a client can present on a state carrying id_token_nonce n.
\* The nonce claim is absent, the one of the state or another one (the
\* first); the letter case of the e-mail claim plays no part in the
\* validation.  A token that fails a check of the try block is rejected
\* before its sub and e-mail claims are read: of those, the ones whose
\* remaining claims would sign the first user in.
IdTokenChoices(n) ==
    {tok \in AllIdTokens :
        /\ tok.nonce \in {0, 1, n}
        /\ tok.k = "lower"
        /\ \/ IdTokenError(tok, n)[1] = 0
           \/ (tok.email_verified /\ tok.sub = 1)}

\* The nonces are interchangeable: the state carries the last one
PresentedIdTokens == IdTokenChoices(NumIdNonces)

\* Callbacks in both flows; the try block runs before the flow is looked
\* at, so the tokens it rejects are presented in the login flow
NextIdToken ==
    \E f \in OAuthInputs, tok \in PresentedIdTokens :
        /\ f[1] = "link" => IdTokenError(tok, NumIdNonces)[1] = 0
        /\ oauth_callback_id_token(
              [flow |-> f[1], link_user_id |-> f[2],
               id_token_nonce |-> NumIdNonces], tok)
        /\ WithinIssueBound

SpecIdToken == Init /\ [][NextIdToken]_vars

----------------------------------------------------------------------------
(* Disabling 2FA *)

\* TwoFAChallenge.is_valid: not used, not expired, attempts left
is_valid(challenge, t) ==
    /\ ~challenge.used
    /\ ~is_expired(challenge, t)
    /\ challenge.attempts < MAX_ATTEMPTS

\* TwoFAChallenge.created_at of a disable challenge: ten minutes before it
\* expires
CreatedAt(challenge) == challenge.expires_at - CHALLENGE_EXPIRES

\* twofa_disable: filter_by(user_id, challenge_type='disable_2fa_confirm')
\* .order_by(created_at.desc()).first(): a challenge of the user none is
\* newer than (0: there is none)
LatestDisableChallenges(u) ==
    LET mine == {c \in OpenChallenges :
                    /\ challenges[c].user_id = u
                    /\ challenges[c].challenge_type = "disable_2fa_confirm"}
    IN IF mine = {} THEN {0}
       ELSE {c \in mine : \A d \in mine :
                CreatedAt(challenges[d]) <= CreatedAt(challenges[c])}

\* POST /auth/2fa/disable/send-code by the bearer of an access token of u
twofa_disable_send_code(u, otp) ==
    LET resp == [NoResponse EXCEPT !.endpoint = "twofa_disable_send_code",
                                   !.user = u]
    IN /\ u \in Holders
       /\ IF users[u].password_hash # NoPasswordHash
          THEN /\ response' = [resp EXCEPT !.status = 400,
                                       !.body = "use_password"]
               /\ UNCHANGED challenges
          ELSE IF users[u].email = NoEmail
          THEN /\ response' = [resp EXCEPT !.status = 400, !.body = "no_email"]
               /\ UNCHANGED challenges
          ELSE /\ \E c \in FreshSessions :
                    challenges' = [challenges EXCEPT ![c] =
                       [NewChallenge(u, c, now) EXCEPT
                          !.challenge_type = "disable_2fa_confirm",
                          !.otp_code_hash = generate_password_hash(otp)]]
               /\ response' = [resp EXCEPT !.status = 200, !.body = "code_sent"]
       /\ UNCHANGED <<now, refreshVars, nonceVars, twofa_config, cfg_lock, treq,
                      code_book, wrong_seen, users, oauth_accounts, databases,
                      auto_register, lreq,
                   passkeyVars>>

\* What a client sends as password ("none": nothing) and as confirmation
\* code (0: nothing)
TypedPasswords == Passwords \cup {"none"}
TypedCodes == OtpCodes \cup {0}

\* POST /auth/2fa/disable by the bearer of an access token of u
twofa_disable(u, password, confirmation_code) ==
    LET user == users[u]
        has_password == user.password_hash # NoPasswordHash
        resp == [NoResponse EXCEPT !.endpoint = "twofa_disable", !.user = u]
        answer(r, status, body) ==
            response' = [r EXCEPT
               !.status = status, !.body = body,
               !.config_changed = twofa_config' # twofa_config,
               !.challenges_changed = challenges' # challenges,
               !.attempts_only =
                  \A c \in ChallengeIds :
                     \/ challenges'[c] = challenges[c]
                     \/ /\ challenges[c] # NoChallenge
                        /\ challenges[c].user_id = u
                        /\ challenges[c].challenge_type = "disable_2fa_confirm"
                        /\ challenges'[c] =
                              [challenges[c] EXCEPT !.attempts = @ + 1]]
        refuse(r, status, body) ==
            /\ UNCHANGED <<twofa_config, challenges, code_book,
                           webauthn_credentials>>
            /\ answer(r, status, body)
        disable(r) ==
            /\ webauthn_credentials' =
                  {cr \in webauthn_credentials : cr.user_id # u}
            /\ twofa_config' = [twofa_config EXCEPT
                  ![u].email_otp_enabled = FALSE,
                  ![u].passkey_enabled = FALSE,
                  ![u].recovery_codes_hash = <<>>,
                  ![u].has_recovery_codes = FALSE]
            /\ challenges' = [c \in ChallengeIds |->
                  IF challenges[c] # NoChallenge /\ challenges[c].user_id = u
                  THEN NoChallenge ELSE challenges[c]]
            /\ code_book' = [code_book EXCEPT ![u].current = {}]
            /\ answer(r, 200, "disabled")
    IN /\ u \in Holders
       /\ IF has_password
          THEN LET r == [resp EXCEPT
                           !.proof = /\ password # "none"
                                     /\ user.password_hash =
                                           generate_password_hash(password)]
               IN IF password = "none" THEN refuse(r, 400, "password_required")
                  ELSE IF ~check_password(user, password)
                  THEN refuse(r, 401, "invalid_password")
                  ELSE disable(r)
          ELSE \E c \in LatestDisableChallenges(u) :
                 LET known == c # 0
                     r == [resp EXCEPT
                             !.proof =
                                /\ confirmation_code # 0
                                /\ known
                                /\ ~challenges[c].used
                                /\ ~(now > challenges[c].expires_at)
                                /\ challenges[c].attempts < MAX_ATTEMPTS
                                /\ challenges[c].otp_code_hash =
                                      generate_password_hash(confirmation_code)]
                 IN IF confirmation_code = 0
                    THEN refuse(r, 400, "confirmation_required")
                    ELSE IF ~known \/ ~is_valid(challenges[c], now)
                    THEN refuse(r, 401, "invalid_or_expired_code")
                    ELSE IF ~check_password_hash(challenges[c].otp_code_hash,
                                                confirmation_code)
                    THEN /\ challenges' = [challenges EXCEPT
                                             ![c].attempts = @ + 1]
                         /\ UNCHANGED <<twofa_config, code_book,
                                        webauthn_credentials>>
                         /\ answer(r, 401, "invalid_code")
                    ELSE disable(r)
       /\ UNCHANGED <<now, refreshVars, nonceVars, cfg_lock, treq, wrong_seen,
                      users, oauth_accounts, databases, auto_register, lreq,
                      enable_passkeys, preq>>

\* str(secrets.randbelow(900000) + 100000) for a confirmation code: the
\* codes are interchangeable, and the challenge of session c gets the c-th
FreshCodes == OtpCodes \cap FreshSessions

\* What the client of user u sends to disable 2FA: a password when the
\* account has one, a confirmation code when it has none
DisableInputs(u) ==
    IF users[u].password_hash # NoPasswordHash
    THEN {<<password, 0>> : password \in TypedPasswords}
    ELSE {<<"none", code>> : code \in TypedCodes}

\* The disable challenges of user u
DisableChallenges(u) ==
    {c \in OpenChallenges : /\ challenges[c].user_id = u
                            /\ challenges[c].challenge_type = "disable_2fa_confirm"}

\* Users with a password and 2FA complete a login, one after the other;
\* users without an account register through OIDC and set e-mail OTP up;
\* both disable 2FA, with a code requested while at most one is
\* outstanding, while time passes
NextDisable ==
    \/ \E u \in TwoFAUsers \ Holders :
          /\ \A v \in TwoFAUsers : v < u => v \in Holders
          /\ LoginIssueOf(u)
          /\ WithinIssueBound
    \/ \E sub \in Accounts :
          /\ UsersByEmail(users, <<sub, "upper">>) = {}
          /\ oauth_callback("login", 0, sub, "upper", TRUE)
          /\ WithinIssueBound
    \/ \E u \in Accounts : twofa_setup_email_confirm(u)
    \/ \E u \in Accounts, otp \in FreshCodes :
          /\ Cardinality(DisableChallenges(u)) <= 1
          /\ twofa_disable_send_code(u, otp)
    \/ \E u \in Holders : \E in \in DisableInputs(u) :
          twofa_disable(u, in[1], in[2])
    \/ TickRefresh

SpecDisable == Init /\ [][NextDisable]_vars

----------------------------------------------------------------------------
(* The 2FA endpoints a login session token is presented to *)

\* config.py: ENABLE_PASSKEYS, read from the environment at start-up
ENABLE_PASSKEYS == enable_passkeys

\* The server is started again with ENABLE_PASSKEYS set to b: requests in
\* flight are gone
RestartPasskeys(b) ==
    /\ b # enable_passkeys
    /\ enable_passkeys' = b
    /\ treq' = [p \in TwoFAReqs |-> IdleTwoFA]
    /\ preq' = [p \in PasskeyReqs |-> IdlePasskey]
    /\ cfg_lock' = [u \in Accounts |-> 0]
    /\ UNCHANGED <<now, refreshVars, nonceVars, twofa_config, challenges,
                   code_book, wrong_seen, users, oauth_accounts, response,
                   databases, auto_register, lreq, webauthn_credentials>>

\* Which terminal state the challenge row is in when a call arrives
TerminalState(challenge, t) ==
    IF challenge = NoChallenge THEN "none"
    ELSE IF challenge.used THEN "used"
    ELSE IF t > challenge.expires_at THEN "expired"
    ELSE "none"

\* What a client sends: no recovery code, no credential
NoCode == <<0, "none">>
NoCredential == [id |-> 0, sign_count |-> 0, valid |-> FALSE]

\* WebAuthnCredential.query.filter_by(user_id=..., credential_id=...)
StoredCredentials(creds, u, id) ==
    {cr \in creds : cr.user_id = u /\ cr.credential_id = id}

\* webauthn.verify_authentication_response: the assertion verifies against
\* the expected challenge, origin and public key, and a counter that is in
\* use has moved past the stored one
SignCountAccepted(current, new) == ~((new > 0 \/ current > 0) /\ new <= current)

\* The answer of a 2FA endpoint to a call on challenge row c
SessionAnswer(resp, status, body) ==
    response' = [resp EXCEPT
       !.status = status, !.body = body,
       !.challenges_changed = challenges' # challenges,
       !.config_changed = twofa_config' # twofa_config,
       !.rows = Cardinality(refresh_tokens') - Cardinality(refresh_tokens),
       !.access = token_log' # token_log]

DispatchAnswer_Ignored(sent) == <<200, "code_sent">>

\* twofa_challenge after send_2fa_code_email: 'if not sent: return ..., 502'
DispatchAnswer(sent) ==
    IF ~sent THEN <<502, "send_failed">> ELSE <<200, "code_sent">>

\* POST /auth/2fa/challenge with the session token of row c; sent: whether
\* send_2fa_code_email reports the code as sent
twofa_challenge_request(c, method, otp, sent) ==
    LET ch == challenges[c]
        err == SessionError(ch, now)
        resp == [NoResponse EXCEPT !.endpoint = "twofa_challenge",
                                   !.challenge = c,
                                   !.terminal = TerminalState(ch, now)]
        keep(status, body) ==
            /\ UNCHANGED challenges
            /\ SessionAnswer(resp, status, body)
    IN /\ UNCHANGED <<now, twofa_config, cfg_lock, treq, code_book, wrong_seen,
                      tokenVars, rreq, nonceVars, users, oauth_accounts,
                      databases, auto_register, lreq, passkeyVars>>
       /\ IF err[1] # 0 THEN keep(err[1], err[2])
          ELSE IF ~users[ch.user_id].exists THEN keep(404, "user_not_found")
          ELSE IF method = "email_otp"
          THEN IF users[ch.user_id].email = NoEmail THEN keep(400, "no_email")
               ELSE /\ challenges' = [challenges EXCEPT
                          ![c].otp_code_hash = generate_password_hash(otp),
                          ![c].challenge_type = "email_otp"]
                    /\ LET r == [resp EXCEPT
                                   !.dispatch_failed = ~sent,
                                   !.holds_code =
                                      challenges'[c].otp_code_hash =
                                         generate_password_hash(otp)]
                       IN SessionAnswer(r, DispatchAnswer(sent)[1],
                                        DispatchAnswer(sent)[2])
          ELSE IF method = "passkey" THEN keep(200, "use_passkey")
          ELSE keep(400, "unknown_method")

\* POST /auth/2fa/verify/passkey/options with the session token of row c;
\* assertion: the challenge bytes generate_authentication_options draws
twofa_passkey_auth_options(c, assertion) ==
    LET ch == challenges[c]
        err == SessionError(ch, now)
        resp == [NoResponse EXCEPT !.endpoint = "twofa_passkey_auth_options",
                                   !.challenge = c,
                                   !.terminal = TerminalState(ch, now)]
        keep(status, body) ==
            /\ UNCHANGED challenges
            /\ SessionAnswer(resp, status, body)
    IN /\ UNCHANGED <<now, twofa_config, cfg_lock, treq, code_book, wrong_seen,
                      tokenVars, rreq, nonceVars, users, oauth_accounts,
                      databases, auto_register, lreq, passkeyVars>>
       /\ IF ~ENABLE_PASSKEYS THEN keep(400, "passkeys_disabled")
          ELSE IF err[1] # 0 THEN keep(err[1], err[2])
          ELSE IF {cr \in webauthn_credentials : cr.user_id = ch.user_id} = {}
          THEN keep(400, "no_passkeys")
          ELSE /\ challenges' = [challenges EXCEPT
                     ![c].otp_code_hash = <<"webauthn", assertion>>,
                     ![c].challenge_type = "passkey"]
               /\ SessionAnswer(resp, 200, "options")

\* POST /auth/2fa/verify with the session token of row c, served without
\* another request in between: otp (0: none), recovery_code (NoCode: none)
\* or credential (NoCredential: none) is the response to the method
twofa_verify(c, method, otp, recovery_code, credential) ==
    LET ch == challenges[c]
        u == ch.user_id
        err == SessionError(ch, now)
        config == twofa_config[u]
        stored == StoredCredentials(webauthn_credentials, u, credential.id)
        idx == MatchedIdx(config.recovery_codes_hash, recovery_code)
        resp == [NoResponse EXCEPT
                   !.endpoint = "twofa_verify", !.challenge = c,
                   !.terminal = TerminalState(ch, now),
                   !.correct =
                      /\ ch # NoChallenge
                      /\ \/ /\ method = "email_otp"
                            /\ otp # 0
                            /\ generate_password_hash(otp) = ch.otp_code_hash
                         \/ /\ method = "recovery"
                            /\ recovery_code # NoCode
                            /\ Upper(recovery_code) \in code_book[u].current
                            /\ Upper(recovery_code) \notin code_book[u].consumed
                         \/ /\ method = "passkey"
                            /\ credential.valid
                            /\ stored # {}]
        keep(status, body) ==
            /\ UNCHANGED <<challenges, twofa_config, code_book, wrong_seen,
                           webauthn_credentials, tokenVars>>
            /\ SessionAnswer(resp, status, body)
        count(body) ==
            /\ challenges' = [challenges EXCEPT ![c].attempts = @ + 1]
            /\ UNCHANGED <<twofa_config, code_book, webauthn_credentials,
                           tokenVars>>
            /\ SessionAnswer(resp, 400, body)
        wrong(body) ==
            /\ wrong_seen' = [wrong_seen EXCEPT ![c] = Bump(@)]
            /\ count(body)
        verified ==
            /\ challenges' = [challenges EXCEPT ![c].used = TRUE]
            /\ IssueTokens(u, "2fa_verify")
            /\ UNCHANGED wrong_seen
            /\ SessionAnswer(resp, 200, "tokens")
    IN /\ UNCHANGED <<now, cfg_lock, treq, rreq, nonceVars, users,
                      oauth_accounts, databases, auto_register, lreq,
                      enable_passkeys, preq>>
       /\ IF err[1] # 0 THEN UNCHANGED wrong_seen /\ keep(err[1], err[2])
          ELSE IF ~users[u].exists THEN keep(404, "user_not_found")
          ELSE IF method = "email_otp"
          THEN IF otp = 0 \/ ch.otp_code_hash = "None"
               THEN UNCHANGED wrong_seen /\ count("missing")
               ELSE IF check_password_hash(ch.otp_code_hash, otp)
               THEN /\ UNCHANGED <<twofa_config, code_book,
                                   webauthn_credentials>>
                    /\ verified
               ELSE wrong("wrong_code")
          ELSE IF method = "passkey"
          THEN IF credential = NoCredential THEN keep(400, "missing_credential")
               ELSE IF ~ENABLE_PASSKEYS THEN keep(400, "passkeys_disabled")
               ELSE IF stored = {}
               THEN UNCHANGED wrong_seen /\ count("unrecognized_credential")
               ELSE \E cr \in stored :
                      IF /\ credential.valid
                         /\ SignCountAccepted(cr.sign_count,
                                              credential.sign_count)
                      THEN /\ webauthn_credentials' =
                                 (webauthn_credentials \ {cr}) \cup
                                 {[cr EXCEPT
                                     !.sign_count = credential.sign_count]}
                           /\ UNCHANGED <<twofa_config, code_book>>
                           /\ verified
                      ELSE UNCHANGED wrong_seen /\ count("passkey_failed")
          ELSE IF method = "recovery"
          THEN IF recovery_code = NoCode THEN keep(400, "missing_code")
               ELSE IF NoRecoveryCodes(config)
               THEN keep(400, "no_codes")
               ELSE IF idx # 0
               THEN /\ twofa_config' = [twofa_config EXCEPT
                          ![u].recovery_codes_hash =
                             Pop(config.recovery_codes_hash, idx)]
                    /\ code_book' = [code_book EXCEPT
                          ![u].consumed = @ \cup {Upper(recovery_code)}]
                    /\ UNCHANGED webauthn_credentials
                    /\ verified
               ELSE wrong("no_match")
          ELSE keep(400, "unknown_method")

\* The code mailed for the session of row c, and the challenge bytes drawn
\* for it: the values are interchangeable, row c gets the c-th
SessionCode(c) == c

\* What a client sends to /auth/2fa/challenge as method
ChallengeMethods == {"email_otp", "passkey", "sms"}

\* What a client sends to /auth/2fa/verify on row c: <<method, code,
\* recovery_code, credential>>.  The recovery codes of a list are
\* interchangeable: the first one, in lower case, or one never issued.
VerifyInputs(c) ==
    {<<"email_otp", otp, NoCode, NoCredential>> : otp \in OtpCodes \cup {0}}
      \cup {<<"recovery", 0, <<n, "lower">>, NoCredential>> : n \in {0, 1}}
      \cup {<<"recovery", 0, NoCode, NoCredential>>,
            <<"passkey", 0, NoCode, NoCredential>>,
            <<"passkey", 0, NoCode,
              [id |-> 1, sign_count |-> 1, valid |-> TRUE]>>,
            <<"sms", 0, NoCode, NoCredential>>}

\* Login sessions of the 2FA users, at most two at a time, and the calls
\* that present their tokens, one after the other, across a restart and
\* while time passes; a session is answered wrongly at most once
NextSession ==
    \/ \E u \in TwoFAUsers :
          /\ Cardinality(OpenChallenges) <= 1
          /\ \A v \in TwoFAUsers :
                v < u => \E c \in OpenChallenges : challenges[c].user_id = v
          /\ LoginChallenge(u)
    \/ \E c \in ChallengeIds, method \in ChallengeMethods, sent \in BOOLEAN :
          twofa_challenge_request(c, method, SessionCode(c), sent)
    \/ \E c \in ChallengeIds : twofa_passkey_auth_options(c, SessionCode(c))
    \/ \E c \in ChallengeIds : \E in \in VerifyInputs(c) :
          /\ twofa_verify(c, in[1], in[2], in[3], in[4])
          /\ \A d \in OpenChallenges : challenges'[d].attempts <= 1
    \/ RestartPasskeys(TRUE)
    \/ TickRefresh

SpecSession == Init /\ [][NextSession]_vars

----------------------------------------------------------------------------
(* Regenerating recovery codes *)

\* How many recovery codes have been generated for user u so far
GeneratedCodes(u) ==
    LET values == {c[1] : c \in code_book[u].current} \cup {0}
    IN CHOOSE n \in values : \A m \in values : m <= n

\* GET /auth/2fa/recovery-codes by the bearer of an access token of u:
\* _generate_recovery_codes replaces the stored list and commits.  The
\* UPDATE waits while a verification holds the row FOR UPDATE.
twofa_get_recovery_codes(u) ==
    LET resp == [NoResponse EXCEPT !.endpoint = "twofa_get_recovery_codes",
                                   !.user = u]
        codes == NewRecoveryCodes(GeneratedCodes(u))
    IN /\ u \in Holders
       /\ IF ~is_enabled(twofa_config[u])
          THEN /\ response' = [resp EXCEPT !.status = 400,
                                       !.body = "twofa_not_enabled"]
               /\ UNCHANGED <<twofa_config, code_book>>
          ELSE /\ RowLockFree(cfg_lock, u, 0)
               /\ twofa_config' = [twofa_config EXCEPT
                     ![u].recovery_codes_hash = HashAll(codes),
                     ![u].has_recovery_codes = TRUE]
               /\ code_book' = [code_book EXCEPT
                     ![u].current = {codes[i] : i \in 1..RecoveryCount}]
               /\ response' = [resp EXCEPT !.status = 200,
                                           !.body = "recovery_codes"]
       /\ UNCHANGED <<now, refreshVars, nonceVars, cfg_lock, challenges, treq,
                      wrong_seen, users, oauth_accounts, databases,
                      auto_register, lreq, passkeyVars>>

\* The recovery codes a client types: the first code of each list generated
\* so far (the codes of one list are interchangeable), in upper case
RegenerationCodes ==
    {<<g * RecoveryCount + 1, "upper">> : g \in 0..(MaxGenerations - 1)}

\* Recovery verifications on the open challenges, step by step, while the
\* users who hold an access token regenerate their codes
NextRegenerate ==
    \/ \E u \in TwoFAUsers :
          /\ \A v \in TwoFAUsers :
                v < u => \E c \in OpenChallenges : challenges[c].user_id = v
          /\ LoginChallenge(u)
    \/ \E p \in TwoFAReqs, c \in OpenChallenges, code \in RegenerationCodes :
          /\ \A q \in TwoFAReqs : q < p => treq[q].pc # "idle"
          /\ TwoFAVerifySession(p, c, "recovery", code)
    \/ \E p \in TwoFAReqs : VerifyRecoveryLock(p)
    \/ \E p \in TwoFAReqs : VerifyRecoveryCommit(p)
    \/ \E u \in Accounts :
          /\ GeneratedCodes(u) < RecoveryCount * MaxGenerations
          /\ twofa_get_recovery_codes(u)

SpecRegenerate == Init /\ [][NextRegenerate]_vars

----------------------------------------------------------------------------
(* Passkeys: registration, and verification as concurrent requests *)

\* POST /auth/2fa/setup/passkey/options by the bearer of an access token of u
twofa_passkey_registration_options(u) ==
    LET resp == [NoResponse EXCEPT
                   !.endpoint = "twofa_passkey_registration_options",
                   !.user = u]
    IN /\ u \in Holders
       /\ UNCHANGED <<now, twofa_config, cfg_lock, treq, code_book, wrong_seen,
                      tokenVars, rreq, nonceVars, users, oauth_accounts,
                      databases, auto_register, lreq, passkeyVars>>
       /\ IF ~ENABLE_PASSKEYS
          THEN /\ UNCHANGED challenges
               /\ SessionAnswer(resp, 400, "passkeys_disabled")
          ELSE \E c \in FreshSessions :
                 /\ challenges' = [challenges EXCEPT ![c] =
                       [NewChallenge(u, c, now) EXCEPT
                          !.challenge_type = "passkey_registration",
                          !.otp_code_hash = <<"webauthn", SessionCode(c)>>,
                          !.expires_at = now + REGISTRATION_EXPIRES]]
                 /\ SessionAnswer([resp EXCEPT !.session = c], 200, "options")

\* POST /auth/2fa/setup/passkey/register by the bearer of an access token
\* of u, with registration token c and the attestation credential
twofa_passkey_register(u, c, credential) ==
    LET ch == challenges[c]
        err == SessionError(ch, now)
        config == twofa_config[u]
        resp == [NoResponse EXCEPT !.endpoint = "twofa_passkey_register",
                                   !.user = u, !.challenge = c]
        keep(status, body) ==
            /\ UNCHANGED <<challenges, twofa_config, code_book,
                           webauthn_credentials>>
            /\ SessionAnswer(resp, status, body)
    IN /\ u \in Holders
       /\ UNCHANGED <<now, cfg_lock, treq, wrong_seen, tokenVars, rreq,
                      nonceVars, users, oauth_accounts, databases,
                      auto_register, lreq, enable_passkeys, preq>>
       /\ IF ~ENABLE_PASSKEYS THEN keep(400, "passkeys_disabled")
          ELSE IF credential = NoCredential THEN keep(400, "missing")
          ELSE IF err[1] # 0 THEN keep(err[1], err[2])
          ELSE IF ch.user_id # u \/ ch.challenge_type # "passkey_registration"
          THEN keep(403, "invalid_registration_session")
          ELSE IF ~credential.valid THEN keep(400, "registration_failed")
          ELSE /\ webauthn_credentials' = webauthn_credentials \cup
                     {[user_id |-> u, credential_id |-> credential.id,
                       sign_count |-> credential.sign_count]}
               /\ challenges' = [challenges EXCEPT ![c].used = TRUE]
               /\ IF NoRecoveryCodes(config)
                  THEN LET codes == NewRecoveryCodes(GeneratedCodes(u))
                       IN /\ twofa_config' = [twofa_config EXCEPT
                                ![u].passkey_enabled = TRUE,
                                ![u].recovery_codes_hash = HashAll(codes),
                                ![u].has_recovery_codes = TRUE]
                          /\ code_book' = [code_book EXCEPT ![u].current =
                                {codes[i] : i \in 1..RecoveryCount}]
                  ELSE /\ twofa_config' = [twofa_config EXCEPT
                                ![u].passkey_enabled = TRUE]
                       /\ UNCHANGED code_book
               /\ SessionAnswer(resp, 200, "registered")

\* twofa_verify, method 'passkey', up to the library call: the session is
\* checked, the stored credential is loaded and the assertion is verified
\* against the sign_count that was loaded
PasskeyVerifyRead(p, c, credential) ==
    LET ch == challenges[c]
        u == ch.user_id
        err == SessionError(ch, now)
        stored == StoredCredentials(webauthn_credentials, u, credential.id)
        done(status) ==
            preq' = [preq EXCEPT ![p] =
               [IdlePasskey EXCEPT !.pc = "done", !.session = c,
                                   !.credential_id = credential.id,
                                   !.status = status]]
    IN /\ preq[p].pc = "idle"
       /\ ch # NoChallenge
       /\ UNCHANGED <<now, twofa_config, cfg_lock, treq, code_book, wrong_seen,
                      tokenVars, rreq, nonceVars, users, oauth_accounts,
                      databases, auto_register, lreq, response,
                      enable_passkeys, webauthn_credentials>>
       /\ IF err[1] # 0 THEN UNCHANGED challenges /\ done(err[1])
          ELSE IF ~users[u].exists THEN UNCHANGED challenges /\ done(404)
          ELSE IF credential = NoCredential \/ ~ENABLE_PASSKEYS
          THEN UNCHANGED challenges /\ done(400)
          ELSE IF stored = {}
          THEN /\ challenges' = [challenges EXCEPT ![c].attempts = @ + 1]
               /\ done(400)
          ELSE \E cr \in stored :
                 IF /\ credential.valid
                    /\ ch.otp_code_hash = <<"webauthn", SessionCode(c)>>
                    /\ SignCountAccepted(cr.sign_count, credential.sign_count)
                 THEN /\ UNCHANGED challenges
                      /\ preq' = [preq EXCEPT ![p] =
                            [pc |-> "verified", session |-> c,
                             credential_id |-> credential.id,
                             sign_count0 |-> cr.sign_count,
                             new_sign_count |-> credential.sign_count,
                             status |-> 0]]
                 ELSE /\ challenges' = [challenges EXCEPT
                            ![c].attempts = @ + 1]
                      /\ done(400)

\* twofa_verify, method 'passkey', from 'stored_cred.sign_count =
\* verification.new_sign_count' to the commit and the tokens.  The row was
\* read without a lock: the UPDATE writes the value this request computed.
PasskeyVerifyCommit(p) ==
    LET c == preq[p].session
        u == challenges[c].user_id
        stored == StoredCredentials(webauthn_credentials, u,
                                    preq[p].credential_id)
    IN /\ preq[p].pc = "verified"
       /\ UNCHANGED <<now, twofa_config, cfg_lock, treq, code_book, wrong_seen,
                      rreq, nonceVars, users, oauth_accounts, databases,
                      auto_register, lreq, response, enable_passkeys>>
       /\ webauthn_credentials' =
             (webauthn_credentials \ stored) \cup
                {[cr EXCEPT !.sign_count = preq[p].new_sign_count] :
                    cr \in stored}
       /\ challenges' = [challenges EXCEPT ![c].used = TRUE]
       /\ preq' = [preq EXCEPT ![p].pc = "done", ![p].status = 200]
       /\ IssueTokens(u, "2fa_verify")

\* What an authenticator sends: its credential id and the value of its
\* signature counter at that assertion
Assertions ==
    {[id |-> 1, sign_count |-> n, valid |-> TRUE] : n \in SignCounts}
        \cup {[id |-> 1, sign_count |-> MaxSignCount, valid |-> FALSE],
              [id |-> 2, sign_count |-> MaxSignCount, valid |-> TRUE]}

\* What a client sends as attestation when it registers a passkey
Attestations ==
    {[id |-> 1, sign_count |-> 0, valid |-> v] : v \in BOOLEAN}
        \cup {NoCredential}

\* A user with 2FA signs in, registers a passkey and then signs in with
\* it from several sessions at once
NextPasskey ==
    \/ RestartPasskeys(TRUE)
    \/ \E u \in TwoFAUsers \ Holders :
          /\ \A v \in TwoFAUsers : v < u => v \in Holders
          /\ LoginIssueOf(u)
    \/ \E u \in Holders :
          /\ \A c \in OpenChallenges : challenges[c].user_id # u
          /\ twofa_passkey_registration_options(u)
    \/ \E u \in Holders, c \in OpenChallenges, cred \in Attestations :
          /\ StoredCredentials(webauthn_credentials, u, cred.id) = {}
          /\ twofa_passkey_register(u, c, cred)
    \/ \E u \in TwoFAUsers :
          /\ twofa_config[u].passkey_enabled
          /\ Cardinality({c \in OpenChallenges : challenges[c].user_id = u})
                <= NumPasskeyReq
          /\ LoginChallenge(u)
    \/ \E c \in OpenChallenges :
          /\ challenges[c].challenge_type = "pending"
          /\ twofa_passkey_auth_options(c, SessionCode(c))
    \/ \E p \in PasskeyReqs, c \in OpenChallenges, cred \in Assertions :
          /\ \A q \in PasskeyReqs : q < p => preq[q].pc # "idle"
          /\ challenges[c].challenge_type = "passkey"
          /\ PasskeyVerifyRead(p, c, cred)
    \/ \E p \in PasskeyReqs : PasskeyVerifyCommit(p)

SpecPasskey == Init /\ [][NextPasskey]_vars

----------------------------------------------------------------------------
(* Password login on both endpoints *)

\* POST /login (session login): username of account u and the typed password.
\* session_user is the account session['user_id'] is set to (0: not set).
login(u, typed) ==
    LET user == users[u]
        resp == [NoResponse EXCEPT !.endpoint = "session_login", !.user = u,
                                   !.twofa = is_enabled(twofa_config[u])]
        passed == [resp EXCEPT !.primary = TRUE]
    IN /\ IF user.exists /\ check_password(user, typed)
          THEN IF user.password_change_required
               THEN /\ \E tok \in FreshChangeTokens :
                         users' = [users EXCEPT
                            ![u].change_token = tok,
                            ![u].change_token_expires =
                               now + CHANGE_TOKEN_EXPIRES]
                    /\ response' = [passed EXCEPT !.status = 200,
                                       !.body = "password_change_required"]
               ELSE /\ UNCHANGED users
                    /\ response' = [passed EXCEPT !.status = 200,
                                       !.body = "login_successful",
                                       !.session_user = u]
          ELSE /\ UNCHANGED users
               /\ response' = [resp EXCEPT
                                  !.status = CredentialError(user)[1],
                                  !.body = CredentialError(user)[2]]
       /\ UNCHANGED <<now, twofa_config, code_book, oauth_accounts, databases,
                      challenges, tokenVars, notLogin>>

\* What a client can see of a response
Visible(resp) ==
    [status |-> resp.status, body |-> resp.body, session |-> resp.session,
     methods |-> resp.methods, access |-> resp.access, token |-> resp.token]

\* Password logins on /login and /auth/login for existing and unknown
\* usernames, and password changes
NextPassword ==
    \/ \E u \in Accounts, typed \in Passwords : login(u, typed)
    \/ \E u \in Accounts, typed \in Passwords :
          jwt_login(u, typed) /\ WithinIssueBound
    \/ \E tok \in {users[u].change_token : u \in Accounts} :
          jwt_change_password(tok) /\ WithinIssueBound

SpecPassword == Init /\ [][NextPassword]_vars

----------------------------------------------------------------------------
(* A refresh-token write that fails *)

rollback_KeepsPending(pending, committed) == pending

\* create_refresh_token, 'except Exception: db.session.rollback(); raise':
\* what the session had pending is dropped, the committed rows stay
rollback(pending, committed) == committed

\* The request died with the exception create_refresh_token re-raised: a
\* 500 that carries neither token
PersistFailed(resp) ==
    response' = [resp EXCEPT
       !.status = 500, !.body = "server_error", !.fault = "refresh_token",
       !.access = FALSE,
       !.rows = Cardinality(refresh_tokens') - Cardinality(refresh_tokens)]

\* POST /auth/refresh; persisted: whether the commit in
\* create_refresh_token goes through
jwt_refresh_persist(token, persisted) ==
    IF persisted THEN jwt_refresh(token)
    ELSE /\ ActiveRows(refresh_tokens, token) # {}
         /\ LET row == CHOOSE r \in ActiveRows(refresh_tokens, token) : TRUE
            IN /\ ~RefreshExpired(row, now)
               /\ users[row.user_id].exists
               /\ \E t \in FreshTokens :
                    refresh_tokens' =
                       rollback(create_refresh_token(
                                   RevokeById(refresh_tokens, row.id),
                                   t, row.user_id, token, now),
                                refresh_tokens)
         /\ UNCHANGED <<now, token_log, rreq, nonceVars, twofaVars, users,
                        oauth_accounts, databases, auto_register, lreq,
                        passkeyVars>>
         /\ PersistFailed([NoResponse EXCEPT !.endpoint = "refresh",
                                             !.token = token])

\* POST /auth/login; persisted: whether the commit in create_refresh_token
\* goes through
jwt_login_persist(u, typed, persisted) ==
    IF persisted THEN jwt_login(u, typed)
    ELSE /\ users[u].exists
         /\ check_password(users[u], typed)
         /\ ~(EMAIL_ENABLED /\ REQUIRE_EMAIL_VERIFICATION
                 /\ ~users[u].email_verified_at)
         /\ ~users[u].password_change_required
         /\ ~is_enabled(twofa_config[u])
         /\ \E t \in FreshTokens :
              refresh_tokens' =
                 rollback(create_refresh_token(refresh_tokens, t, u, 0, now),
                          refresh_tokens)
         /\ UNCHANGED <<now, token_log, rreq, nonceVars, twofaVars, users,
                        oauth_accounts, databases, auto_register, lreq,
                        passkeyVars>>
         /\ PersistFailed([NoResponse EXCEPT !.endpoint = "login",
                                             !.user = u, !.primary = TRUE])

\* Logins and refreshes whose token write may fail, password changes, and
\* the passing of time
NextPersist ==
    \/ \E u \in Accounts, typed \in Passwords, persisted \in BOOLEAN :
          jwt_login_persist(u, typed, persisted) /\ WithinIssueBound
    \/ \E t \in PresentableTokens, persisted \in BOOLEAN :
          jwt_refresh_persist(t, persisted) /\ WithinIssueBound
    \/ \E tok \in {users[u].change_token : u \in Accounts} :
          jwt_change_password(tok) /\ WithinIssueBound
    \/ TickRefresh

SpecPersist == Init /\ [][NextPersist]_vars

----------------------------------------------------------------------------
(* The resolver with any pairing of provider identity and e-mail *)

\* OIDC logins with a verified e-mail claim that is the mailbox of the
\* provider identity or of another one, and e-mail verifications
NextResolve ==
    \/ \E sub \in Accounts : \E mailbox \in Mailboxes(sub) :
          /\ oauth_callback_from(NoResponse, "login", 0, sub, mailbox,
                                 "upper", TRUE, "none")
          /\ WithinIssueBound
    \/ \E u \in Accounts : verify_email(u)

SpecResolve == Init /\ [][NextResolve]_vars

----------------------------------------------------------------------------
(* The email_verified claim of the ID token *)

\* A JSON value of the email_verified claim: its type, its text, and for a
\* string the letter case of the text and whether white space surrounds it
ClaimValue(type, text, case, padded) ==
    [type |-> type, text |-> text, case |-> case, padded |-> padded]

MissingClaim == ClaimValue("missing", "", "lower", FALSE)

EmailVerifiedClaims ==
    {ClaimValue("bool", "true", "lower", FALSE),
     ClaimValue("bool", "false", "lower", FALSE),
     ClaimValue("int", "1", "lower", FALSE),
     ClaimValue("int", "2", "lower", FALSE),
     ClaimValue("float", "1.0", "lower", FALSE),
     MissingClaim,
     ClaimValue("str", "true", "upper", TRUE),
     ClaimValue("str", "yes", "upper", FALSE),
     ClaimValue("str", "1", "lower", TRUE),
     ClaimValue("str", "false", "lower", FALSE),
     ClaimValue("str", "verified", "upper", TRUE),
     ClaimValue("str", "", "lower", TRUE)}

\* str.strip() and str.lower()
strip(s) == [s EXCEPT !.padded = FALSE]
lower(s) == [s EXCEPT !.case = "lower"]

is_email_verified_Truthy(claim) ==
    IF claim.type = "bool" THEN claim.text = "true"
    ELSE IF claim.type \in {"int", "float"} THEN claim.text \notin {"0", "0.0"}
    ELSE IF claim.type = "str" THEN claim.text # "" \/ claim.padded
    ELSE FALSE

\* oauth_callback: is_email_verified, from the email_verified claim
is_email_verified(claim) ==
    IF claim.type = "bool" THEN claim.text = "true"
    ELSE IF claim.type = "int" THEN claim.text = "1"
    ELSE IF claim.type = "str"
    THEN lower(strip(claim)) \in
            {ClaimValue("str", t, "lower", FALSE) : t \in {"true", "1", "yes"}}
    ELSE FALSE

\* POST /auth/oauth/<provider>/callback in the login flow with a valid
\* state and ID token: sub, the e-mail claim (mailbox 0: none) and the
\* email_verified claim
oauth_callback_claims(sub, mailbox, claim) ==
    oauth_callback_from(
       [NoResponse EXCEPT !.email_claim = mailbox # 0,
                          !.email_verified = claim],
       "login", 0, sub, mailbox, "upper",
       mailbox # 0 => is_email_verified(claim), "none")

\* OIDC logins with any email_verified claim, with and without an e-mail
\* claim, and e-mail verifications.  The provider identities are
\* interchangeable: each signs in for the first time after those before it.
NextClaims ==
    \/ \E sub \in Accounts, claim \in EmailVerifiedClaims :
          \E mailbox \in {0, sub} :
             /\ \A v \in Accounts :
                   v < sub => LinksOf(oauth_accounts, v) # {}
             /\ oauth_callback_claims(sub, mailbox, claim)
             /\ WithinIssueBound
    \/ \E u \in Accounts : verify_email(u)

SpecClaims == Init /\ [][NextClaims]_vars

----------------------------------------------------------------------------
(* Decodes of state tokens and the lazy cleanup, over time *)

\* _verify_oauth_state(state_token) as one call, for a state token the
\* server issued: the lazy cleanup, then the decode, the membership test
\* and the store
VerifyState(p, tok) ==
    LET cleaned == CleanupUsedNonces(used_nonces, nonce_last_cleanup, now)
        r == verify_oauth_state(StateJwt(tok), cleaned[1], now)
    IN /\ vreq[p].pc = "idle"
       /\ \A q \in VerifyReqs : q < p => vreq[q].pc # "idle"
       /\ used_nonces' = r[2]
       /\ nonce_last_cleanup' = cleaned[2]
       /\ vreq' = [vreq EXCEPT ![p] =
             [pc |-> "done", token |-> tok.state_nonce,
              result |-> IF r[1] THEN "payload" ELSE "None",
              why |-> IF r[1] THEN "none"
                      ELSE IF StateTokenExpired(tok, now) THEN "expired"
                      ELSE "replayed"]]
       /\ UNCHANGED <<now, state_tokens, notNonce>>

\* Nonces of state tokens that were accepted and are no longer in the set
EvictedNonces ==
    {n \in AcceptedStates : ~NonceUsed(used_nonces, n)}

\* State tokens are issued and decoded, each decode as one call, while
\* time passes
NextEvict ==
    \/ oauth_authorize
    \/ \E p \in VerifyReqs, tok \in state_tokens : VerifyState(p, tok)
    \/ TickNonce

SpecEvict == Init /\ [][NextEvict]_vars

----------------------------------------------------------------------------
(* verify_refresh_token among logins, rotations and the passing of time *)

NextVerifyToken ==
    \/ \E u \in UserIds : LoginIssue(u)
    \/ \E p \in RefreshReqs, t \in PresentableTokens : RefreshVerify(p, t)
    \/ \E p \in RefreshReqs : RefreshRotate(p)
    \/ TickRefresh

SpecVerifyToken == Init /\ [][NextVerifyToken]_vars

----------------------------------------------------------------------------
(* Session tokens of setup challenges presented to /auth/2fa/verify *)

\* POST /auth/2fa/setup/email by the bearer of an access token of u: a
\* challenge row of type 'email_otp_setup' holding the hash of the code is
\* committed, the code is mailed and the session token is returned as
\* setup_token
twofa_setup_email(u, sent) ==
    LET resp == [NoResponse EXCEPT !.endpoint = "twofa_setup_email",
                                   !.user = u]
    IN /\ u \in Holders
       /\ UNCHANGED <<now, twofa_config, cfg_lock, treq, code_book, wrong_seen,
                      tokenVars, rreq, nonceVars, users, oauth_accounts,
                      databases, auto_register, lreq, passkeyVars>>
       /\ IF users[u].email = NoEmail
          THEN /\ UNCHANGED challenges
               /\ SessionAnswer(resp, 400, "no_email")
          ELSE \E c \in FreshSessions :
                 /\ challenges' = [challenges EXCEPT ![c] =
                       [NewChallenge(u, c, now) EXCEPT
                          !.challenge_type = "email_otp_setup",
                          !.otp_code_hash =
                             generate_password_hash(SessionCode(c))]]
                 /\ IF ~sent
                    THEN SessionAnswer(resp, 502, "send_failed")
                    ELSE SessionAnswer([resp EXCEPT !.session = c],
                                       200, "code_sent")

\* challenge_type values of the rows a login opens and /auth/2fa/challenge
\* and /auth/2fa/passkey/options move on
LoginChallengeTypes == {"pending", "email_otp", "passkey"}

\* An authenticated user opens setup challenges and login challenges; the
\* session tokens of all of them are presented to /auth/2fa/verify, each
\* answered wrongly at most once
NextRedeem ==
    \/ RestartPasskeys(TRUE)
    \/ \E u \in TwoFAUsers : Holders = {} /\ LoginIssueOf(u)
    \/ \E u \in Holders, sent \in BOOLEAN : twofa_setup_email(u, sent)
    \/ \E u \in Holders : twofa_passkey_registration_options(u)
    \/ \E u \in Holders : LoginChallenge(u)
    \/ \E c \in OpenChallenges :
          /\ challenges[c].challenge_type = "pending"
          /\ twofa_challenge_request(c, "email_otp", SessionCode(c), TRUE)
    \/ \E c \in OpenChallenges : \E in \in VerifyInputs(c) :
          /\ twofa_verify(c, in[1], in[2], in[3], in[4])
          /\ WithinIssueBound
          /\ \A d \in OpenChallenges : challenges'[d].attempts <= 1

SpecRedeem == Init /\ [][NextRedeem]_vars

----------------------------------------------------------------------------
(* Linking and unlinking several providers *)

\* config.py, OAUTH_PROVIDERS: the providers the deployment has enabled
Providers == {"oidc", "google"}

\* OAuthAccount.query.filter_by(user_id=..., provider=...)
ProviderLinks(accts, u, provider) ==
    {a \in accts : a.user_id = u /\ a.provider = provider}

\* POST /auth/oauth/<provider>/callback in the link flow, with a valid state
\* naming link_user and an ID token for the identity sub of that provider
oauth_callback_link(provider, link_user, sub) ==
    LET email == <<sub, "lower">>
        same == {a \in oauth_accounts :
                    a.provider = provider /\ a.provider_user_id = sub}
        mine == ProviderLinks(oauth_accounts, link_user, provider)
        resp == [NoResponse EXCEPT !.endpoint = "oauth_link",
                                   !.user = link_user]
    IN /\ link_user \in Holders
       /\ IF \E a \in same : a.user_id # link_user
          THEN /\ response' = [resp EXCEPT !.status = 409,
                                       !.body = "linked_to_another_user"]
               /\ UNCHANGED <<users, oauth_accounts, databases, challenges,
                              tokenVars>>
          ELSE \E target \in (IF mine = {} THEN {0} ELSE {a.id : a \in mine}) :
                 LET written == LinkWrite(oauth_accounts, target, link_user,
                                          sub, email)
                     accts == {[a EXCEPT !.provider =
                                   IF a \in oauth_accounts THEN @ ELSE provider] :
                               a \in written}
                 IN IF ~UniqueLinks(accts)
                    THEN ServerError(resp)
                    ELSE /\ oauth_accounts' = accts
                         /\ ChallengeOrTokens(link_user, "oauth_link", TRUE,
                               [resp EXCEPT
                                   !.links = Cardinality(accts)
                                               - Cardinality(oauth_accounts),
                                   !.links_changed = accts # oauth_accounts])
                         /\ UNCHANGED <<users, databases>>
       /\ UNCHANGED <<now, twofa_config, code_book, notLogin>>

\* DELETE /auth/oauth/<provider> by the bearer of an access token of user u,
\* up to its last query: the request is answered with an error, or holds
\* the row it will delete
UnlinkRead(p, u, provider) ==
    LET account == ProviderLinks(oauth_accounts, u, provider)
        other_accounts == Cardinality({a \in oauth_accounts :
                             a.user_id = u /\ a.provider # provider})
        resp == [NoResponse EXCEPT !.endpoint = "oauth_unlink", !.user = u]
    IN /\ lreq[p].pc = "idle"
       /\ \A q \in LinkReqs : q < p => lreq[q].pc # "idle"
       /\ u \in Holders
       /\ IF account = {}
          THEN /\ response' = [resp EXCEPT !.status = 404, !.body = "not_linked"]
               /\ lreq' = [lreq EXCEPT ![p] = DoneLink]
          ELSE IF users[u].password_hash = NoPasswordHash /\ other_accounts = 0
          THEN /\ response' = [resp EXCEPT !.status = 400,
                                       !.body = "only_login_method"]
               /\ lreq' = [lreq EXCEPT ![p] = DoneLink]
          ELSE /\ \E a \in account :
                    lreq' = [lreq EXCEPT ![p] =
                       [IdleLink EXCEPT !.pc = "delete", !.kind = "unlink",
                                        !.user = u, !.target = a.id]]
               /\ UNCHANGED response
       /\ UNCHANGED <<now, refreshVars, nonceVars, twofaVars, users,
                      oauth_accounts, databases, auto_register, passkeyVars>>

\* db.session.delete(account); db.session.commit(), and the answer
UnlinkCommit(p) ==
    LET accts == {a \in oauth_accounts : a.id # lreq[p].target}
    IN /\ lreq[p].pc = "delete"
       /\ oauth_accounts' = accts
       /\ lreq' = [lreq EXCEPT ![p] = DoneLink]
       /\ response' = [NoResponse EXCEPT
             !.endpoint = "oauth_unlink", !.user = lreq[p].user,
             !.status = 200, !.body = "unlinked",
             !.links = Cardinality(accts) - Cardinality(oauth_accounts),
             !.links_changed = accts # oauth_accounts]
       /\ UNCHANGED <<now, refreshVars, nonceVars, twofaVars, users, databases,
                      auto_register, passkeyVars>>

\* A user who signs up through a provider links further providers and
\* unlinks them in concurrent requests
NextUnlink ==
    \/ \E sub \in Accounts :
          /\ UsersByEmail(users, <<sub, "upper">>) = {}
          /\ oauth_callback("login", 0, sub, "upper", TRUE)
    \/ \E provider \in Providers, u \in Holders, sub \in Accounts :
          oauth_callback_link(provider, u, sub) /\ WithinIssueBound
    \/ \E p \in LinkReqs, u \in Holders, provider \in Providers :
          UnlinkRead(p, u, provider)
    \/ \E p \in LinkReqs : UnlinkCommit(p)

SpecUnlink == Init /\ [][NextUnlink]_vars

----------------------------------------------------------------------------
(* Removing passkeys *)

\* WebAuthnCredential.query.filter_by(user_id=...)
CredentialsOf(creds, u) == {cr \in creds : cr.user_id = u}

\* DELETE /auth/2fa/setup/passkey/<id> by the bearer of an access token of
\* u, up to its last query: the confirmation is checked, the row is looked
\* up and deleted in the request's transaction (the DELETE waits while
\* another transaction has deleted the same row), and the rows that remain
\* are counted
DeletePasskeyRead(p, u, password, confirmation_code, id) ==
    LET user == users[u]
        cred == StoredCredentials(webauthn_credentials, u, id)
        deleting == {preq[q].credential_id :
                        q \in {r \in PasskeyReqs : preq[r].pc = "deleting"
                                                   /\ preq[r].user = u}}
        remaining == Cardinality(CredentialsOf(webauthn_credentials, u) \ cred)
        done(status) ==
            preq' = [preq EXCEPT ![p] =
               [IdlePasskey EXCEPT !.pc = "done", !.user = u,
                                   !.credential_id = id, !.status = status]]
        found(c) ==
            /\ UNCHANGED challenges
            /\ IF cred = {} THEN done(404)
               ELSE /\ id \notin deleting
                    /\ preq' = [preq EXCEPT ![p] =
                          [IdlePasskey EXCEPT
                              !.pc = "deleting", !.user = u, !.session = c,
                              !.credential_id = id, !.remaining = remaining]]
    IN /\ preq[p].pc = "idle"
       /\ u \in Holders
       /\ IF user.password_hash # NoPasswordHash
          THEN IF password = "none" THEN UNCHANGED challenges /\ done(400)
               ELSE IF ~check_password(user, password)
               THEN UNCHANGED challenges /\ done(401)
               ELSE found(0)
          ELSE \E c \in LatestDisableChallenges(u) :
                 IF confirmation_code = 0
                 THEN UNCHANGED challenges /\ done(400)
                 ELSE IF c = 0 \/ ~is_valid(challenges[c], now)
                 THEN UNCHANGED challenges /\ done(401)
                 ELSE IF ~check_password_hash(challenges[c].otp_code_hash,
                                             confirmation_code)
                 THEN /\ challenges' = [challenges EXCEPT
                                          ![c].attempts = @ + 1]
                      /\ done(401)
                 ELSE found(c)
       /\ UNCHANGED <<now, refreshVars, nonceVars, twofa_config, cfg_lock, treq,
                      code_book, wrong_seen, users, oauth_accounts, response,
                      databases, auto_register, lreq, enable_passkeys,
                      webauthn_credentials>>

\* twofa_delete_passkey, the end: 'if remaining == 0: config.passkey_enabled
\* = False', then the commit of the deletion, of the flag and of the used
\* mark of the confirmation challenge
DeletePasskeyCommit(p) ==
    LET u == preq[p].user
        c == preq[p].session
    IN /\ preq[p].pc = "deleting"
       /\ webauthn_credentials' = webauthn_credentials \
             StoredCredentials(webauthn_credentials, u, preq[p].credential_id)
       /\ twofa_config' =
             IF preq[p].remaining = 0
             THEN [twofa_config EXCEPT ![u].passkey_enabled = FALSE]
             ELSE twofa_config
       /\ challenges' =
             IF c # 0 /\ challenges[c] # NoChallenge
             THEN [challenges EXCEPT ![c].used = TRUE]
             ELSE challenges
       /\ preq' = [preq EXCEPT ![p].pc = "done", ![p].status = 200]
       /\ UNCHANGED <<now, refreshVars, nonceVars, cfg_lock, treq, code_book,
                      wrong_seen, users, oauth_accounts, response, databases,
                      auto_register, lreq, enable_passkeys>>

\* The passkeys a user's authenticators offer for registration
OwnPasskeys == {[id |-> i, sign_count |-> 0, valid |-> TRUE] : i \in 1..2}

\* A signed-in user with 2FA registers passkeys, removes them in concurrent
\* requests and disables 2FA
NextRemove ==
    \/ RestartPasskeys(TRUE)
    \/ \E u \in TwoFAUsers : Holders = {} /\ LoginIssueOf(u)
    \/ \E u \in Holders :
          /\ \A c \in OpenChallenges : challenges[c].used
          /\ twofa_passkey_registration_options(u)
    \/ \E u \in Holders, c \in OpenChallenges, cred \in OwnPasskeys :
          /\ StoredCredentials(webauthn_credentials, u, cred.id) = {}
          /\ twofa_passkey_register(u, c, cred)
    \/ \E p \in PasskeyReqs, u \in Holders, password \in {"initial", "wrong"},
          cred \in OwnPasskeys :
          /\ \A q \in PasskeyReqs : q < p => preq[q].pc # "idle"
          /\ DeletePasskeyRead(p, u, password, 0, cred.id)
    \/ \E p \in PasskeyReqs : DeletePasskeyCommit(p)
    \/ \E u \in Holders : twofa_disable(u, "initial", 0)

SpecRemove == Init /\ [][NextRemove]_vars

----------------------------------------------------------------------------
(* The OAuth callback from the state parameter to the code exchange *)

\* How the provider answers a callback that reaches it: the discovery
\* document or the token endpoint fails, the token response carries no ID
\* token, or an ID token comes back
ProviderOutcomes ==
    {"discovery_failed", "exchange_failed", "no_id_token", "id_token"}

\* A callback that has its ID token and has not been answered yet
CallbackInProgress ==
    response.endpoint = "oauth_callback" /\ response.status = 0

\* POST /auth/oauth/<provider>/callback up to the code exchange, with state
\* token tok: _verify_oauth_state, the provider of the route against the one
\* of the state (same_provider), then discovery and the token request.
\* provider_contacted: a request went out to the provider.
oauth_callback_state(p, tok, same_provider, outcome) ==
    LET cleaned == CleanupUsedNonces(used_nonces, nonce_last_cleanup, now)
        r == verify_oauth_state(StateJwt(tok), cleaned[1], now)
        answer == IF ~r[1] THEN <<400, "invalid_state", FALSE>>
                  ELSE IF ~same_provider
                  THEN <<400, "state_provider_mismatch", FALSE>>
                  ELSE IF outcome = "id_token" THEN <<0, outcome, TRUE>>
                  ELSE <<502, outcome, TRUE>>
    IN /\ vreq[p].pc = "idle"
       /\ \A q \in VerifyReqs : q < p => vreq[q].pc # "idle"
       /\ used_nonces' = r[2]
       /\ nonce_last_cleanup' = cleaned[2]
       /\ vreq' = [vreq EXCEPT ![p] =
             [pc |-> "done", token |-> tok.state_nonce,
              result |-> IF r[1] THEN "payload" ELSE "None",
              why |-> IF r[1] THEN answer[2]
                      ELSE IF StateTokenExpired(tok, now) THEN "expired"
                      ELSE "replayed"]]
       /\ response' = [NoResponse EXCEPT
             !.endpoint = "oauth_callback", !.token = tok.state_nonce,
             !.returned = r[1], !.status = answer[1],
             !.body = answer[2], !.provider_contacted = answer[3]]
       /\ UNCHANGED <<now, state_tokens, refreshVars, twofaVars, users,
                      oauth_accounts, databases, auto_register, lreq,
                      passkeyVars>>

\* The ID tokens the provider hands out for the first identity: one that
\* passes every validation, and the same with a bad signature
ExchangedIdTokens ==
    {tok \in PresentedIdTokens :
        /\ tok.sub = 1 /\ tok.email_verified
        /\ IdTokenError([tok EXCEPT !.sig = TRUE], NumIdNonces)[1] = 0}

\* State tokens are issued, each once the ones before it have been
\* presented, and presented to the callback, one callback after the other,
\* while time passes; a callback that obtained an ID token goes on with its
\* validation
NextCallback ==
    \/ /\ \A s \in state_tokens : \E p \in VerifyReqs :
             vreq[p].pc = "done" /\ vreq[p].token = s.state_nonce
       /\ oauth_authorize
    \/ \E p \in VerifyReqs, tok \in state_tokens, same_provider \in BOOLEAN,
          outcome \in ProviderOutcomes :
          /\ ~CallbackInProgress
          /\ oauth_callback_state(p, tok, same_provider, outcome)
    \/ \E tok \in ExchangedIdTokens :
          /\ CallbackInProgress
          /\ oauth_callback_id_token(
                [flow |-> "login", link_user_id |-> 0,
                 id_token_nonce |-> NumIdNonces], tok)
    \/ TickNonce

SpecCallback == Init /\ [][NextCallback]_vars

----------------------------------------------------------------------------
(* An administrator changes a user's e-mail address *)

\* PUT /users/<target> with an 'email' key, by the bearer of an access token
\* of the administrator admin (self-hosted mode): the address is written
\* unless another user has exactly it; no other column is touched
jwt_update_user(admin, target, new_email) ==
    LET resp == [NoResponse EXCEPT !.endpoint = "jwt_update_user",
                                   !.user = target]
        existing == {v \in Accounts \ {target} :
                        users[v].exists /\ users[v].email = new_email}
    IN /\ admin \in Holders
       /\ IF ~users[target].exists
          THEN /\ response' = [resp EXCEPT !.status = 404, !.body = "not_found"]
               /\ UNCHANGED users
          ELSE IF /\ new_email # NoEmail
                  /\ new_email # users[target].email
                  /\ existing # {}
          THEN /\ response' = [resp EXCEPT !.status = 400,
                                       !.body = "email_in_use"]
               /\ UNCHANGED users
          ELSE /\ users' = [users EXCEPT ![target].email = new_email]
               /\ response' = [resp EXCEPT !.status = 200, !.body = "updated"]
       /\ UNCHANGED <<now, twofa_config, code_book, oauth_accounts, databases,
                      challenges, tokenVars, notLogin>>

\* The addresses an administrator types: any mailbox in lower case, or none
TypedEmails == {<<m, "lower">> : m \in Accounts} \cup {NoEmail}

\* An administrator signs in and edits e-mail addresses; users verify their
\* addresses and provider identities sign in
NextUpdateUser ==
    \/ \E u \in TwoFAUsers : Holders = {} /\ LoginIssueOf(u)
    \/ \E u \in Accounts : verify_email(u)
    \/ \E admin \in Holders, target \in Accounts, new_email \in TypedEmails :
          jwt_update_user(admin, target, new_email)
    \/ \E sub \in Accounts :
          oauth_callback("login", 0, sub, "lower", TRUE) /\ WithinIssueBound

SpecUpdateUser == Init /\ [][NextUpdateUser]_vars

----------------------------------------------------------------------------
(* A rotation in flight while every token of the user is revoked *)

\* Users sign in until the first revoke-all; refreshes run as concurrent
\* requests before and after it
NextRevokeRace ==
    \/ \E u \in UserIds : response.revocation = "none" /\ LoginIssue(u)
    \/ \E p \in RefreshReqs, t \in PresentableTokens : RefreshVerify(p, t)
    \/ \E p \in RefreshReqs : RefreshRotate(p)
    \/ \E u \in {r.user_id : r \in refresh_tokens} :
          jwt_logout_all_as(u, TRUE)

SpecRevokeRace == Init /\ [][NextRevokeRace]_vars

----------------------------------------------------------------------------
(* C1: rotation is one-shot.  A POST /auth/refresh that presents token T
   after an earlier refresh with T has been answered 200 is answered 401,
   is given no new token, and adds no row to refresh_tokens. *)
RotationOneShot ==
    \A p \in RefreshReqs :
        (rreq[p].replay /\ rreq[p].pc # "idle")
            => /\ rreq[p].pc = "done"
               /\ rreq[p].status = 401
               /\ rreq[p].issued = 0
               /\ \A r \in refresh_tokens :
                     r.parent = rreq[p].token =>
                        \E q \in RefreshReqs \ {p} :
                            rreq[q].status = 200 /\ r.token_hash = Sha256(rreq[q].issued)

RotationOneShotWitness ==
    \E p, q \in RefreshReqs :
        /\ p # q
        /\ rreq[q].status = 200
        /\ rreq[p].replay
        /\ rreq[p].pc = "done"
        /\ rreq[p].status = 401
        /\ rreq[p].token = rreq[q].token

(* C2: rotation is linearizable per token.  Of two POST /auth/refresh
   requests presenting the same refresh token, at most one is answered with
   a new token pair. *)
RotationLinearizable ==
    \A p, q \in RefreshReqs :
        (p # q /\ rreq[p].status = 200 /\ rreq[q].status = 200)
            => rreq[p].token # rreq[q].token

(* C3: OAuth state replay.  A state token is accepted by
   _verify_oauth_state at most once: once a decode has returned its
   payload, no decode of the same token returns the payload afterwards. *)
StateAcceptedOnce ==
    [][\A p \in VerifyReqs :
          (vreq[p].result # "payload" /\ vreq'[p].result = "payload")
              => vreq'[p].token \notin AcceptedStates]_vars

(* C4: the used-nonce check-then-insert is atomic.  Of two concurrent
   _verify_oauth_state calls on the same state token, at most one returns
   the payload. *)
NonceCheckInsertAtomic ==
    \A p, q \in VerifyReqs :
        (p # q /\ vreq[p].result = "payload" /\ vreq[q].result = "payload")
            => vreq[p].token # vreq[q].token

(* C5: recovery-code single use under concurrency.  Of the
   POST /auth/2fa/verify requests with method 'recovery' that were admitted
   by the session check while the same code was a stored code of the user
   (on one challenge or on several) and that have been answered, exactly
   one was accepted and every other found no matching hash. *)
UserOf(p) == challenges[treq[p].session].user_id

Contenders(p) ==
    {q \in TwoFAReqs :
        /\ treq[q].pc = "done" /\ treq[q].fresh
        /\ UserOf(q) = UserOf(p)
        /\ Upper(treq[q].code) = Upper(treq[p].code)}

RecoverySingleUse ==
    \A p \in TwoFAReqs :
        (treq[p].pc = "done" /\ treq[p].fresh)
            => /\ Cardinality({q \in Contenders(p) : treq[q].status = 200}) = 1
               /\ \A q \in Contenders(p) :
                     treq[q].status # 200 =>
                        (treq[q].status = 400 /\ treq[q].why = "no_match")

RecoverySingleUseWitness ==
    \E p, q \in TwoFAReqs :
        /\ p # q
        /\ treq[p].pc = "done" /\ treq[q].pc = "done"
        /\ treq[p].fresh /\ treq[q].fresh
        /\ UserOf(p) = UserOf(q)
        /\ treq[p].session # treq[q].session
        /\ Upper(treq[p].code) = Upper(treq[q].code)
        /\ treq[p].status = 200
        /\ treq[q].why = "no_match"

(* C6: a successful recovery verification removes exactly the matched hash.
   The stored list verifies exactly the generated codes that were not yet
   redeemed, each by one hash, and a code that has been redeemed is not
   accepted again for that user, in either letter case, on any challenge. *)
StoredCodes(u) ==
    {c \in code_book[u].current :
        \E i \in 1..Len(twofa_config[u].recovery_codes_hash) :
            check_password_hash(twofa_config[u].recovery_codes_hash[i], c)}

RecoveryRemovesMatched ==
    /\ \A u \in TwoFAUsers :
          /\ StoredCodes(u) = code_book[u].current \ code_book[u].consumed
          /\ Len(twofa_config[u].recovery_codes_hash) = Cardinality(StoredCodes(u))
    /\ \A p \in TwoFAReqs :
          (treq[p].reuse /\ treq[p].pc = "done")
              => (treq[p].status = 400 /\ treq[p].why = "no_match")

RecoveryRemovesMatchedWitness ==
    \E p, q \in TwoFAReqs :
        /\ treq[p].status = 200
        /\ treq[p].code[2] = "lower"
        /\ treq[q].reuse /\ treq[q].pc = "done"
        /\ treq[q].code = Upper(treq[p].code)
        /\ UserOf(p) = UserOf(q)
        /\ StoredCodes(UserOf(p)) # {}

(* C7: attempt lockout.  A verify request that arrives after 5 wrong
   responses have been answered on its challenge is rejected as locked
   (429), without tokens and without touching the attempts counter. *)
AttemptLockout ==
    \A p \in TwoFAReqs :
        treq[p].late => (treq[p].pc = "done" /\ treq[p].status = 429)

(* C8: when password login or an OAuth login callback passes primary
   authentication for a user whose 2FA is enabled, the answer is 403 with
   twofa_required, a 2FA session token and a method list containing
   'recovery'; it carries no access token and the request adds no
   RefreshToken row. *)
TwoFARequiredOnLogin ==
    ( /\ response.endpoint \in {"login", "oauth_login"}
      /\ response.primary
      /\ response.twofa )
    => /\ response.status = 403
       /\ response.body = "twofa_required"
       /\ response.session # 0
       /\ "recovery" \in response.methods
       /\ ~response.access
       /\ response.rows = 0

(* C9: for every user with 2FA enabled, a token pair is issued only by a
   successful /auth/2fa/verify or by rotating a refresh token: no pair in
   the log was issued to a 2FA-enabled user by login, change-password or
   the OAuth callback in either flow. *)
TokensOnlyAfterTwoFA ==
    \A e \in token_log : e.twofa => e.via \in {"2fa_verify", "refresh"}

(* C10: auto-link safety.  An OIDC login whose e-mail matches, in any
   letter case, a local user whose email_verified_at is unset, and whose
   provider identity has no link, is answered with an error, and the
   request adds no OAuthAccount row, no user and no RefreshToken row and
   returns no access token. *)
AutoLinkSafety ==
    (response.endpoint = "oauth_login" /\ response.unverified_match)
    => /\ response.status \in {401, 409}
       /\ response.body \in {"provider_email_not_verified",
                             "email_not_verified"}
       /\ response.links = 0
       /\ response.users = 0
       /\ response.rows = 0
       /\ ~response.access

AutoLinkSafetyWitness ==
    /\ response.endpoint = "oauth_login"
    /\ response.unverified_match
    /\ response.status = 409
    /\ response.body = "email_not_verified"
    /\ \E v \in Accounts :
          /\ users[v].exists
          /\ ~users[v].email_verified_at
          /\ users[v].email[2] = "mixed"
    /\ \E a \in oauth_accounts : users[a.user_id].email_verified_at
    /\ token_log # {}

(* C11: an OAuth callback whose ID token carries a nonce claim different
   from the id_token_nonce of the presented state is rejected with 401; it
   returns no access token and the request adds no RefreshToken row and no
   user. *)
NonceMismatchRejected ==
    response.nonce_differs
        => /\ response.status = 401
           /\ ~response.access
           /\ response.rows = 0
           /\ response.users = 0

(* C12: a validly signed ID token whose aud claim, string or list, does not
   contain the client id is rejected by the callback with 401, whatever its
   other claims are. *)
AudienceEnforced ==
    response.aud_lacks_client => response.status = 401

(* C13: a callback whose ID token fails any validation (signature,
   exp/iat/nbf, issuer, audience, nonce, email_verified, missing sub) is
   terminal: the step leaves the users, OAuth links, refresh tokens and 2FA
   challenges as they were, and the answer carries neither an access token
   nor a 2FA session token. *)
IdTokenFailureTerminal ==
    [][response'.id_token_invalid
          => /\ UNCHANGED <<users, oauth_accounts, refresh_tokens, challenges,
                            token_log>>
             /\ response'.status \in {401, 502}
             /\ ~response'.access
             /\ response'.session = 0]_vars

IdTokenFailureTerminalWitness ==
    /\ response.id_token_invalid
    /\ response.body = "no_subject"
    /\ oauth_accounts # {}
    /\ refresh_tokens # {}
    /\ \E c \in ChallengeIds : challenges[c] # NoChallenge
    /\ \E u \in Accounts : users[u].exists /\ users[u].password_hash = NoPasswordHash

(* C14: an OIDC login whose provider identity has no link and whose e-mail
   matches no user, with auto-registration disabled, is answered with
   AccountNotFound and HTTP 403, and creates no User, Database or
   OAuthAccount row. *)
AccountNotFoundForbidden ==
    response.not_found
    => /\ response.status = 403
       /\ response.body = "account_not_found"
       /\ response.users = 0
       /\ response.databases = 0
       /\ response.links = 0

(* C15: auto-registration is all-or-nothing.  A callback that auto-registers
   persists the new user, its default database, the access grant and the
   OAuth link together when no step fails, and none of them when a step
   fails; so every user without a password owns a database it may access
   and has an OAuth link. *)
AutoRegisterAllOrNothing ==
    /\ response.registering
       => LET made == <<response.users, response.databases, response.grants,
                       response.links>>
          IN IF response.fault = "none"
             THEN made = <<1, 1, 1, 1>> /\ response.status \in {200, 403}
             ELSE made = <<0, 0, 0, 0>> /\ response.status = 500
    /\ \A u \in Accounts :
          (users[u].exists /\ users[u].password_hash = NoPasswordHash)
          => /\ \E d \in databases : d.owner_id = u /\ u \in d.users
             /\ LinksOfUser(oauth_accounts, u) # {}

AutoRegisterAllOrNothingWitness ==
    /\ response.registering
    /\ response.fault = "commit"
    /\ response.status = 500
    /\ databases = {}
    /\ \A u \in Accounts : users[u].exists => users[u].password_hash # NoPasswordHash
    /\ oauth_accounts # {}

(* C17: a link-flow callback whose provider identity is already linked to a
   user other than the link_user_id of the state is rejected with 409; the
   request adds and modifies no OAuthAccount row, adds no RefreshToken row
   and returns no access token. *)
ConflictingLinkRejected ==
    response.linked_elsewhere
    => /\ response.status = 409
       /\ response.body = "linked_to_another_user"
       /\ ~response.links_changed
       /\ response.links = 0
       /\ response.rows = 0
       /\ ~response.access

ConflictingLinkRejectedWitness ==
    /\ response.linked_elsewhere
    /\ response.endpoint = "oauth_link"
    /\ response.status = 409
    /\ \E a \in oauth_accounts : a.user_id # response.user
    /\ LinksOfUser(oauth_accounts, response.user) # {}

(* C16: in every reachable state, after any sequence and interleaving of
   OAuth login callbacks, link callbacks and unlinks, no two OAuthAccount
   rows have the same (provider, provider_user_id). *)
LinkIdentityUnique ==
    \A a, b \in oauth_accounts :
        a.provider_user_id = b.provider_user_id => a = b

LinkIdentityUniqueWitness ==
    /\ response.body = "server_error"
    /\ response.endpoint = "oauth_link"
    /\ \A p \in LinkReqs : lreq[p].pc = "done"
    /\ \E a, b \in oauth_accounts :
          /\ a.user_id = b.user_id
          /\ a.provider_user_id # b.provider_user_id
    /\ Cardinality(token_log) = 2

(* C18: verify_access_token returns the claims only of a token that is
   signed with the server secret, not expired and of type 'access'; a state
   token is never accepted as an access token, and _verify_oauth_state never
   accepts an access token. *)
TokenTypesSeparated ==
    /\ (response.endpoint = "jwt_required" /\ response.returned)
       => /\ response.jwt.key = "server"
          /\ response.jwt.exp > response.at
          /\ response.jwt.type = "access"
    /\ (response.endpoint = "jwt_required"
          /\ response.jwt.type = "oauth_state")
       => ~response.returned /\ response.status = 401
    /\ (response.endpoint = "verify_oauth_state"
          /\ response.jwt.type = "access")
       => ~response.returned

TokenTypesSeparatedWitness ==
    /\ response.endpoint = "jwt_required"
    /\ response.jwt.type = "oauth_state"
    /\ response.jwt.key = "server"
    /\ response.jwt.exp > response.at
    /\ response.status = 401
    /\ NonceUsed(used_nonces, response.jwt.state_nonce)

(* C19: a revocation (logout with T, logout-all, password reset) leaves
   every refresh token it covers revoked and every other row as it was; a
   revoked row never becomes unrevoked; and a refresh that presents a token
   whose row is revoked is answered 401, issues nothing and changes no
   row. *)
RevocationFinal ==
    /\ [](response.revocation # "none"
            => ~response.still_active /\ ~response.frame_broken)
    /\ []((response.endpoint = "refresh" /\ response.presented_revoked)
            => /\ response.status = 401
               /\ ~response.access
               /\ response.rows = 0
               /\ ~response.links_changed)
    /\ [][\A r \in refresh_tokens :
            r.revoked => \E a \in refresh_tokens' : a.id = r.id /\ a.revoked]_vars

RevocationFinalWitness ==
    /\ response.endpoint = "refresh"
    /\ response.presented_revoked
    /\ response.status = 401
    /\ \E r \in RowsByHash(refresh_tokens, response.token) :
          /\ users[r.user_id].password_hash = generate_password_hash("chosen")
          /\ \E a \in refresh_tokens : a.user_id # r.user_id /\ ~a.revoked
          /\ \E a \in refresh_tokens : a.user_id = r.user_id /\ ~a.revoked

(* C20: POST /auth/2fa/disable changes the user's 2FA config and challenges
   only when the caller has supplied the correct password (the account has
   a password) or the correct code of the user's latest still-valid
   disable_2fa_confirm challenge (the account has none); in every other
   case the 2FA state is unchanged. *)
DisableNeedsProof ==
    (response.endpoint = "twofa_disable" /\ ~response.proof)
    => ~response.config_changed /\ ~response.challenges_changed

(* C20, amended: without that proof the 2FA config is unchanged, no
   challenge is removed, and the only change to a challenge is the attempts
   counter of the user's latest disable_2fa_confirm challenge, raised by one
   for a wrong code. *)
DisableNeedsProofButCounts ==
    (response.endpoint = "twofa_disable" /\ ~response.proof)
    => /\ response.status \in {400, 401}
       /\ ~response.config_changed
       /\ response.attempts_only
       /\ response.challenges_changed => response.body = "invalid_code"

DisableNeedsProofButCountsWitness ==
    /\ response.endpoint = "twofa_disable"
    /\ ~response.proof
    /\ response.body = "invalid_code"
    /\ response.challenges_changed
    /\ is_enabled(twofa_config[response.user])
    /\ users[response.user].password_hash = NoPasswordHash
    /\ \E u \in Accounts :
          /\ users[u].password_hash # NoPasswordHash
          /\ u \in Holders
          /\ ~is_enabled(twofa_config[u])
          /\ code_book[u].current = {}

(* C21: used and expired are absorbing states of a 2FA challenge.  Once the
   row is marked used or its expires_at has passed, every call of
   /auth/2fa/challenge, /auth/2fa/verify/passkey/options and
   /auth/2fa/verify with its session token is answered 401, leaves the
   challenge rows unchanged and issues no tokens, also when the response
   submitted is correct. *)
TerminalSessionRejected ==
    (response.terminal # "none")
    => /\ response.status = 401
       /\ ~response.challenges_changed
       /\ ~response.access
       /\ response.rows = 0

(* C21, as the code has it: the same, with the one exception that
   /auth/2fa/verify/passkey/options answers 400 'Passkeys are not enabled'
   while passkeys are switched off, before it looks at the session. *)
TerminalSessionRejectedOrDisabled ==
    (response.terminal # "none")
    => /\ \/ response.status = 401
          \/ /\ response.status = 400
             /\ response.body = "passkeys_disabled"
             /\ response.endpoint = "twofa_passkey_auth_options"
       /\ (response.endpoint # "twofa_passkey_auth_options"
              => response.status = 401)
       /\ ~response.challenges_changed
       /\ ~response.config_changed
       /\ ~response.access
       /\ response.rows = 0

TerminalSessionRejectedOrDisabledWitness ==
    /\ response.endpoint = "twofa_verify"
    /\ response.terminal = "used"
    /\ response.correct
    /\ response.status = 401
    /\ response.body = "used"
    /\ token_log # {}
    /\ \E c \in ChallengeIds :
          /\ challenges[c] # NoChallenge
          /\ ~challenges[c].used
          /\ now > challenges[c].expires_at

(* C22: regenerating recovery codes invalidates all prior codes atomically.
   The stored list only ever holds hashes of codes of the latest
   generation (never a mix, never old hashes written back), and a recovery
   verification accepts only a code of the generation that is the latest
   when it commits, also when it runs concurrently with a regeneration. *)
RegenerationInvalidatesAll ==
    /\ [](\A u \in Accounts :
            \A i \in 1..Len(twofa_config[u].recovery_codes_hash) :
               \E c \in code_book[u].current :
                  check_password_hash(twofa_config[u].recovery_codes_hash[i], c))
    /\ [][\A p \in TwoFAReqs :
            (treq[p].pc = "locked" /\ treq'[p].pc = "done"
                /\ treq'[p].status = 200)
            => Upper(treq[p].code) \in code_book'[UserOf(p)].current]_vars

RegenerationInvalidatesAllWitness ==
    /\ response.endpoint = "twofa_get_recovery_codes"
    /\ response.status = 200
    /\ \E p, q \in TwoFAReqs :
          /\ treq[p].pc = "done" /\ treq[p].status = 200
          /\ Upper(treq[p].code) \notin code_book[UserOf(p)].current
          /\ treq[q].pc = "done" /\ treq[q].why = "no_match"
          /\ UserOf(q) = UserOf(p)
          /\ Upper(treq[q].code) \notin code_book[UserOf(q)].current
          /\ twofa_config[UserOf(q)].recovery_codes_hash
                = HashAll(NewRecoveryCodes(RecoveryCount))

(* C23: the stored sign_count of a WebAuthn credential never decreases,
   over any sequence and interleaving of passkey verifications. *)
SignCountNeverDecreases ==
    [][\A cr \in webauthn_credentials : \A nx \in webauthn_credentials' :
          (nx.user_id = cr.user_id /\ nx.credential_id = cr.credential_id)
             => nx.sign_count >= cr.sign_count]_vars

(* C24: on /login and on /auth/login a failed password login is answered
   the same way whether the username is unknown or the password is wrong:
   status 401 and one body, with nothing else a client can see. *)
LoginFailuresAlike ==
    (response.endpoint \in {"session_login", "login"} /\ ~response.primary)
       => Visible(response) =
             [status |-> 401, body |-> "invalid_credentials", session |-> 0,
              methods |-> {}, access |-> FALSE, token |-> 0]

LoginFailuresAlikeWitness ==
    /\ response.endpoint = "session_login"
    /\ ~response.primary
    /\ ~users[response.user].exists
    /\ response.status = 401
    /\ \E u \in Accounts :
          /\ users[u].exists
          /\ users[u].password_hash = generate_password_hash("chosen")

(* C25: when persisting a new refresh token fails, the request returns no
   token (no access token, no refresh token) and the refresh-token store
   is as it was before the request; after a failed rotation the presented
   token is still unrevoked and unexpired, hence redeemable.  (A step that
   leaves the clock alone is a request; the response is that request's.) *)
PersistFailureIsWhole ==
    [][(response'.fault = "refresh_token" /\ now' = now) =>
          /\ ~response'.access
          /\ response'.status = 500
          /\ refresh_tokens' = refresh_tokens
          /\ token_log' = token_log
          /\ response'.endpoint = "refresh" =>
                \E r \in ActiveRows(refresh_tokens', response'.token) :
                   ~RefreshExpired(r, now')]_vars

PersistFailureIsWholeWitness ==
    /\ response.fault = "refresh_token"
    /\ response.endpoint = "refresh"
    /\ response.token # 0
    /\ \E r \in ActiveRows(refresh_tokens, response.token) : r.parent # 0
    /\ \E r \in refresh_tokens : r.revoked

(* C26: when the dispatch of the e-mail code fails during
   /auth/2fa/challenge (method email_otp), the request is answered 502
   and issues nothing; a challenge that holds the hash of a code is never
   reported as success unless that code was dispatched. *)
DispatchFailureIsLoud ==
    response.endpoint = "twofa_challenge" =>
       /\ response.dispatch_failed =>
             (response.status = 502 /\ ~response.access /\ response.rows = 0)
       /\ (response.holds_code /\ response.status = 200) =>
             ~response.dispatch_failed

DispatchFailureIsLoudWitness ==
    /\ response.endpoint = "twofa_challenge"
    /\ response.dispatch_failed
    /\ response.status = 502
    /\ response.holds_code
    /\ challenges[response.challenge].challenge_type = "email_otp"
    /\ challenges[response.challenge].otp_code_hash
          = generate_password_hash(SessionCode(response.challenge))

(* C27: verify_refresh_token returns a record only if a row with the hash
   of the presented token exists that is unrevoked and whose expires_at is
   not in the past; for an unrevoked but expired row it returns None and
   the row is stored as revoked; no other row is ever changed. *)
VerifyRefreshTokenContract ==
    [][\A p \in RefreshReqs :
          (rreq[p].pc = "idle" /\ rreq'[p].pc # "idle") =>
             LET token == rreq'[p].token
                 mine == {r \in refresh_tokens : r.token_hash = Sha256(token)}
                 live == {r \in mine : ~r.revoked}
             IN /\ rreq'[p].pc = "verified" =>
                      \E r \in live : /\ r.expires_at >= now
                                      /\ r.id = rreq'[p].stored
                /\ (\E r \in live : r.expires_at < now) =>
                      /\ rreq'[p].pc = "done" /\ rreq'[p].status = 401
                      /\ \A r \in live :
                            [r EXCEPT !.revoked = TRUE] \in refresh_tokens'
                      /\ \A r \in live : r \notin refresh_tokens'
                /\ refresh_tokens \ mine = refresh_tokens' \ 
                      {r \in refresh_tokens' : r.token_hash = Sha256(token)}
                /\ Cardinality(refresh_tokens') = Cardinality(refresh_tokens)]_vars

VerifyRefreshTokenContractWitness ==
    \E p \in RefreshReqs :
       /\ rreq[p].pc = "done" /\ rreq[p].status = 401
       /\ \E r \in refresh_tokens :
             /\ r.token_hash = Sha256(rreq[p].token)
             /\ r.revoked /\ r.expires_at < now
             /\ \A o \in refresh_tokens : o.parent # rreq[p].token
       /\ \E o \in refresh_tokens :
             ~o.revoked /\ o.token_hash # Sha256(rreq[p].token)

(* C28: user resolution is ordered and short-circuiting.  With a link for
   the provider identity the linked user is returned and no link or user
   is created, whatever the e-mail matches; without one, an e-mail that
   matches a local user ends in an auto-link to a matching user whose
   e-mail is verified or in an error, never in a new user; a user is
   registered only when there is neither a link nor a matching user. *)
ResolutionOrdered ==
    response.resolving =>
       /\ response.linked_to # 0 =>
             /\ response.user = response.linked_to
             /\ response.links = 0
             /\ response.users = 0
             /\ response.status \in {200, 403}
       /\ (response.linked_to = 0 /\ response.email_users # {}) =>
             /\ response.users = 0
             /\ \/ /\ response.user \in response.email_users
                   /\ users[response.user].email_verified_at
                   /\ response.links = 1
                   /\ response.status \in {200, 403}
                \/ /\ response.status = 409
                   /\ response.body = "email_not_verified"
                   /\ response.user = 0
                   /\ response.links = 0
                   /\ ~response.access
       /\ response.users # 0 =>
             (response.linked_to = 0 /\ response.email_users = {})

ResolutionOrderedWitness ==
    /\ response.resolving
    /\ response.linked_to # 0
    /\ response.email_users # {}
    /\ response.linked_to \notin response.email_users
    /\ response.user = response.linked_to
    /\ response.status = 200

(* C29: with an e-mail claim in the ID token the callback goes on to
   resolve a user only if email_verified is the boolean true, the integer
   1, or a string that is 'true', '1' or 'yes' once trimmed and
   lower-cased; with any other value, a missing claim included, it answers
   401 and resolves no user.  Without an e-mail claim the callback goes
   on whatever email_verified is. *)
EmailVerifiedGate ==
    response.endpoint = "oauth_login" =>
       LET claim == response.email_verified
           accepted ==
              \/ claim.type = "bool" /\ claim.text = "true"
              \/ claim.type = "int" /\ claim.text = "1"
              \/ claim.type = "str" /\ claim.text \in {"true", "1", "yes"}
       IN IF response.email_claim
          THEN /\ response.resolving <=> accepted
               /\ ~accepted =>
                     /\ response.status = 401
                     /\ response.body = "provider_email_not_verified"
                     /\ response.user = 0
                     /\ response.links = 0 /\ response.users = 0
                     /\ ~response.access /\ response.rows = 0
          ELSE response.resolving

EmailVerifiedGateWitness ==
    /\ response.endpoint = "oauth_login"
    /\ response.email_claim
    /\ response.email_verified = ClaimValue("str", "true", "upper", TRUE)
    /\ response.resolving
    /\ response.status = 200
    /\ response.user # 0

(* C30: replay protection does not rely on eviction timing.  The deadline
   of a used nonce is later than the expiry of the state token that
   carries it, the lazy cleanup removes a nonce only when its deadline has
   passed, and no state token is accepted again after its nonce was
   evicted. *)
NoReplayAfterEviction ==
    /\ [](\A e \in used_nonces : \A tok \in state_tokens :
             tok.state_nonce = e[1] => e[2] > tok.exp)
    /\ [][\A e \in used_nonces :
             ~NonceUsed(used_nonces', e[1]) => e[2] < now]_vars
    /\ [][\A p \in VerifyReqs :
             (vreq[p].result # "payload" /\ vreq'[p].result = "payload")
                => vreq'[p].token \notin EvictedNonces]_vars

NoReplayAfterEvictionWitness ==
    \E p, q \in VerifyReqs :
       /\ p < q
       /\ vreq[p].result = "payload"
       /\ vreq[q].pc = "done" /\ vreq[q].token = vreq[p].token
       /\ vreq[q].result = "None"
       /\ vreq[p].token \in EvictedNonces

(* C31: the attempt limit holds under concurrency.  For any interleaving
   of /auth/2fa/verify requests on one challenge, the number of wrong
   responses that were compared with the stored secret never exceeds
   max_attempts (5). *)
WrongResponsesBounded ==
    \A c \in ChallengeIds : wrong_seen[c] <= MAX_ATTEMPTS


(* C32: every wrong response counts.  A verify request that is answered
   400 for a wrong response leaves the challenge's stored attempts counter
   exactly one higher than it was before the request committed, and no
   step lowers the stored attempts counter of a challenge. *)
WrongResponseCountsOnce ==
    [][\A c \in OpenChallenges :
          /\ challenges'[c].attempts >= challenges[c].attempts
          /\ \A p \in TwoFAReqs :
                ( /\ treq[p].pc = "checked"
                  /\ treq[p].session = c
                  /\ treq'[p].pc = "done"
                  /\ treq'[p].status = 400 )
                => challenges'[c].attempts = challenges[c].attempts + 1]_vars


(* C33: a 2FA challenge session yields at most one token pair.  No two
   verify requests on the same session token are both answered with
   tokens. *)
OneTokenPairPerChallenge ==
    \A p, q \in TwoFAReqs :
        ( /\ p # q
          /\ treq[p].pc = "done" /\ treq[p].status = 200
          /\ treq[q].pc = "done" /\ treq[q].status = 200 )
        => treq[p].session # treq[q].session


(* C34: /auth/2fa/verify issues tokens only for challenges opened by a
   login.  Whenever the endpoint answers with tokens, the challenge row of
   the presented session token has challenge_type pending, email_otp or
   passkey. *)
TokensOnlyForLoginChallenges ==
    ( /\ response.endpoint = "twofa_verify"
      /\ response.status = 200 )
    => challenges[response.challenge].challenge_type \in LoginChallengeTypes


(* C35: the session login does not bypass the second factor.  /login never
   sets the session's user_id and role for a user whose 2FA is enabled:
   no second factor is verified on that endpoint. *)
SessionLoginNeedsSecondFactor ==
    ( /\ response.endpoint = "session_login"
      /\ response.session_user # 0 )
    => ~response.twofa


(* C36: unlinking never strands a password-less account.  A user without
   a password always has at least one linked OAuth account. *)
PasswordlessKeepsLogin ==
    \A u \in Accounts :
        (users[u].exists /\ users[u].password_hash = NoPasswordHash)
            => LinksOfUser(oauth_accounts, u) # {}


(* C37: passkey_enabled is true only if the user has at least one
   WebAuthnCredential row. *)
PasskeyEnabledHasCredential ==
    \A u \in Accounts :
        twofa_config[u].passkey_enabled
            => CredentialsOf(webauthn_credentials, u) # {}


(* C38: a state token permits at most one callback attempt, whatever its
   outcome.  The nonce of a state token some callback has verified is in
   the used set for as long as the token has not expired, and a callback
   that presents a state token an earlier callback has verified is answered
   400 without a request to the provider and without a change to users,
   linked accounts or tokens. *)
StateSingleAttempt ==
    /\ [](\A s \in state_tokens :
             s.state_nonce \in AcceptedStates
                => \/ NonceUsed(used_nonces, s.state_nonce)
                   \/ StateTokenExpired(s, now))
    /\ [][\A p \in VerifyReqs :
             ( /\ vreq[p].pc = "idle"
               /\ vreq'[p].pc = "done"
               /\ vreq'[p].token \in AcceptedStates )
             => ( /\ response'.endpoint = "oauth_callback"
                  /\ response'.status = 400
                  /\ ~response'.provider_contacted
                  /\ UNCHANGED <<users, oauth_accounts, tokenVars>> )]_vars

StateSingleAttemptWitness ==
    \E p, q \in VerifyReqs, s \in state_tokens :
        /\ vreq[p].result = "payload"
        /\ vreq[p].why \in {"state_provider_mismatch", "discovery_failed",
                            "exchange_failed", "no_id_token"}
        /\ vreq[p].token = s.state_nonce
        /\ vreq[q].token = s.state_nonce
        /\ vreq[q].why = "replayed"
        /\ ~StateTokenExpired(s, now)
        /\ response.endpoint = "oauth_callback"
        /\ response.token = s.state_nonce
        /\ response.status = 400


(* C39: an e-mail verification covers the current address.  Every step
   that changes the e-mail address of an existing user leaves the user's
   email_verified_at mark cleared. *)
EmailChangeClearsVerification ==
    [][\A u \in Accounts :
          (users[u].exists /\ users'[u].email # users[u].email)
             => ~users'[u].email_verified_at]_vars


(* C40: a rotation racing with revoke-all cannot outlive it.  Once
   POST /auth/logout-all for a user has been answered and no refresh
   request is between its verification and its rotation, the user has no
   unrevoked refresh token that descends from a token issued before the
   revoke-all (no token is issued by a login after it here). *)
RevokeAllOutlivesRotation ==
    ( /\ response.revocation = "logout_all"
      /\ \A p \in RefreshReqs : rreq[p].pc # "verified" )
    => \A r \in refresh_tokens : r.user_id = response.user => r.revoked

====
